---- MODULE Spec2Model ----
(***************************************************************************)
(* Pointer-level model of the red-black tree engine of                      *)
(* src/src/RBTree/s21_rbtree.h and of the Set / Multiset / Map adapters     *)
(* built on it (src/src/containers/s21_set.h, src/src/containers/s21_map.h, *)
(* src/src/containersplus/s21_multiset.h).                                  *)
(* The heap is a pool of node cells; every operation is translated          *)
(* statement by statement from the C++ source.                              *)
(***************************************************************************)
EXTENDS Integers, Sequences, FiniteSets, TLC

\* ---------------------------------------------------------------- bounds
MaxKey == 3        \* the keys are 1..MaxKey
MaxNodes == 5      \* cells one container may hold allocated (its sentinel
                   \* included)
MaxArgs == 3       \* longest argument pack given to insert_many
MaxMapped == 2     \* the mapped values of a Map are 0..MaxMapped

\* ------------------------------------------------------------- constants
NULL == 0          \* nullptr
Poison == 42       \* the value FailingComparator raises on
Indet == -1        \* the never-initialised value_ of a sentinel node

RED == "RED"
BLACK == "BLACK"

PoolSize == MaxNodes + 3   \* room for a second container and a temporary
Nodes == 1..PoolSize
TreeIds == 1..3    \* 1, 2: the user's containers; 3: the by-value parameter
                   \* of the adapters' operator=

VARIABLES
  left, right, parent,   \* RBTreeNode::left_, right_, parent_
  color, value,          \* RBTreeNode::color_, value_
  allocated,             \* cells obtained from new and not yet deleted
  root, endNode, size,   \* RBTree::root_, endNode_, size_  (per container)
  live,                  \* containers constructed and not destroyed
  kind,                  \* "set", "multiset" or "map": the adapter in use
  cmp,                   \* the Comparator template argument
  fault,                 \* "none", or the fatal error the process died of
  last,                  \* the call that has just returned
  bag                    \* per multiset, the reference bag: how many times
                         \* each key was inserted and not yet erased

vars == <<left, right, parent, color, value, allocated, root, endNode, size,
          live, kind, cmp, fault, last, bag>>

\* The machine state as one record, threaded through the operators below.
Cur ==
  [left |-> left, right |-> right, parent |-> parent, color |-> color,
   value |-> value, allocated |-> allocated, root |-> root,
   endNode |-> endNode, size |-> size, live |-> live, cmp |-> cmp,
   fault |-> fault]

\* ------------------------------------------------------------ comparator
\* std::less, std::greater, and the tests' FailingComparator (lhs < rhs,
\* raising when either side is 42).
CompRaises(c, a, b) == c = "failing" /\ (a = Poison \/ b = Poison)

\* std::pair<const Key, T> of a Map<int, int>, kept in the one integer a
\* cell holds: make_pair packs, firstOf and secondOf unpack.  T() is int(): 0.
DefaultT == 0
make_pair(k, x) == k * (MaxMapped + 1) + x
firstOf(p) == p \div (MaxMapped + 1)
secondOf(p) == p % (MaxMapped + 1)

\* ValueComparator<Key, T, std::less<Key>> compares the keys and never the
\* mapped values.
ValueComparator(val1, val2) == firstOf(val1) < firstOf(val2)

Comp(c, a, b) ==
  IF c = "greater" THEN a > b
  ELSE IF c = "value" THEN ValueComparator(a, b)
  ELSE a < b

\* ------------------------------------------------------------ allocation
FreeCells(m) == Nodes \ m.allocated
NewCell(m) == CHOOSE n \in FreeCells(m) : \A o \in FreeCells(m) : n <= o

\* new Node(value): red, no links
AllocNode(m, n, v) ==
  [m EXCEPT !.allocated = @ \cup {n}, !.value[n] = v, !.left[n] = NULL,
            !.right[n] = NULL, !.parent[n] = NULL, !.color[n] = RED]

\* new Node(): the sentinel constructor, black, value_ left uninitialised
AllocEnd(m, n) ==
  [m EXCEPT !.allocated = @ \cup {n}, !.value[n] = Indet, !.left[n] = NULL,
            !.right[n] = NULL, !.parent[n] = NULL, !.color[n] = BLACK]

\* delete node: the cell goes back to the pool (its content is dead)
FreeNode(m, n) ==
  [m EXCEPT !.allocated = @ \ {n}, !.value[n] = Indet, !.left[n] = NULL,
            !.right[n] = NULL, !.parent[n] = NULL, !.color[n] = BLACK]

\* A load or store through a null pointer: the process dies of the fault.
Fault(m, what) == IF m.fault = "none" THEN [m EXCEPT !.fault = what] ELSE m
Ok(m) == m.fault = "none"

\* A loop of the source that would never terminate (links forming a cycle).
Hang(m) == Fault(m, "hang")

\* ------------------------------------------------------------- rotations
leftRotate(m, t, node) ==
  LET rightChild == m.right[node] IN
  IF ~Ok(m) THEN m
  ELSE IF rightChild = NULL THEN m
  ELSE
    LET rl == m.left[rightChild]
        np == m.parent[node]
        m1 == [m EXCEPT !.right[node] = rl]
        m2 == IF rl # NULL THEN [m1 EXCEPT !.parent[rl] = node] ELSE m1
        m3 == [m2 EXCEPT !.parent[rightChild] = np]
        m4 == IF np = NULL THEN [m3 EXCEPT !.root[t] = rightChild]
              ELSE IF node = m3.left[np]
                   THEN [m3 EXCEPT !.left[np] = rightChild]
                   ELSE [m3 EXCEPT !.right[np] = rightChild]
    IN [m4 EXCEPT !.left[rightChild] = node, !.parent[node] = rightChild]

rightRotate(m, t, node) ==
  LET leftChild == m.left[node] IN
  IF ~Ok(m) THEN m
  ELSE IF leftChild = NULL THEN Fault(m, "null:rightRotate")
  ELSE
    LET lr == m.right[leftChild]
        np == m.parent[node]
        m1 == [m EXCEPT !.left[node] = lr]
        m2 == IF lr # NULL THEN [m1 EXCEPT !.parent[lr] = node] ELSE m1
        m3 == [m2 EXCEPT !.parent[leftChild] = np]
        m4 == IF np = NULL THEN [m3 EXCEPT !.root[t] = leftChild]
              ELSE IF node = m3.right[np]
                   THEN [m3 EXCEPT !.right[np] = leftChild]
                   ELSE [m3 EXCEPT !.left[np] = leftChild]
    IN [m4 EXCEPT !.right[leftChild] = node, !.parent[node] = leftChild]

\* ------------------------------------------------------ find_min/find_max
RECURSIVE WalkLeft(_, _, _)
WalkLeft(m, n, fuel) ==
  IF m.left[n] = NULL THEN n
  ELSE IF fuel = 0 THEN NULL
  ELSE WalkLeft(m, m.left[n], fuel - 1)

RECURSIVE WalkRight(_, _, _)
WalkRight(m, n, fuel) ==
  IF m.right[n] = NULL THEN n
  ELSE IF fuel = 0 THEN NULL
  ELSE WalkRight(m, m.right[n], fuel - 1)

RECURSIVE WalkRightToEnd(_, _, _, _)
WalkRightToEnd(m, t, n, fuel) ==
  IF m.right[n] = m.endNode[t] \/ m.right[n] = NULL THEN n
  ELSE IF fuel = 0 THEN NULL
  ELSE WalkRightToEnd(m, t, m.right[n], fuel - 1)

\* NULL stands for a walk that never ends (a cycle of links).
find_min(m, t, n) ==
  IF n = NULL THEN m.endNode[t] ELSE WalkLeft(m, n, PoolSize)

find_max(m, t, n) ==
  IF n = NULL THEN m.endNode[t] ELSE WalkRightToEnd(m, t, n, PoolSize)

\* -------------------------------------------------------------- fixInsert
SwapColor(m, a, b) ==
  [m EXCEPT !.color[a] = m.color[b], !.color[b] = m.color[a]]

\* The end of a rotation case: std::swap(parent->color_, grandparent->color_)
fixInsertRecolor(m, par, grandparent) ==
  IF ~Ok(m) THEN m
  ELSE IF par = NULL THEN Fault(m, "null:fixInsert")
  ELSE SwapColor(m, par, grandparent)

\* parent is the left child of grandparent and the uncle is not red: after
\* the inner case has rotated, node = parent; parent = node->parent_.
fixInsertLeftOuter(m, t, par, grandparent) ==
  fixInsertRecolor(rightRotate(m, t, grandparent), par, grandparent)

fixInsertLeftInner(m, t, node, grandparent) ==
  fixInsertLeftOuter(m, t, m.parent[node], grandparent)

\* the mirror image
fixInsertRightOuter(m, t, par, grandparent) ==
  fixInsertRecolor(leftRotate(m, t, grandparent), par, grandparent)

fixInsertRightInner(m, t, node, grandparent) ==
  fixInsertRightOuter(m, t, m.parent[node], grandparent)

RECURSIVE fixInsertLoop(_, _, _, _)
fixInsertLoop(m, t, node, fuel) ==
  IF ~Ok(m) \/ node = m.root[t] THEN m
  ELSE IF fuel = 0 THEN Hang(m)
  ELSE IF m.parent[node] = NULL THEN Fault(m, "null:fixInsert")
  ELSE IF m.color[m.parent[node]] # RED THEN m
  ELSE
    LET par == m.parent[node]
        grandparent == m.parent[par]
    IN
    IF grandparent = NULL THEN Fault(m, "null:fixInsert")
    ELSE IF par = m.left[grandparent] THEN
      LET uncle == m.right[grandparent] IN
      IF uncle # m.endNode[t] /\ uncle # NULL /\ m.color[uncle] = RED THEN
        fixInsertLoop([m EXCEPT !.color[par] = BLACK, !.color[uncle] = BLACK,
                                !.color[grandparent] = RED],
                      t, grandparent, fuel - 1)
      ELSE IF node = m.right[par] THEN
        fixInsertLeftInner(leftRotate(m, t, par), t, par, grandparent)
      ELSE fixInsertLeftOuter(m, t, par, grandparent)
    ELSE
      LET uncle == m.left[grandparent] IN
      IF uncle # m.endNode[t] /\ uncle # NULL /\ m.color[uncle] = RED THEN
        fixInsertLoop([m EXCEPT !.color[par] = BLACK, !.color[uncle] = BLACK,
                                !.color[grandparent] = RED],
                      t, grandparent, fuel - 1)
      ELSE IF node = m.left[par] THEN
        fixInsertRightInner(rightRotate(m, t, par), t, par, grandparent)
      ELSE fixInsertRightOuter(m, t, par, grandparent)

\* fixInsert that leaves the root the colour the loop gave it
fixInsertRootKeepingColor(m, t) ==
  IF ~Ok(m) THEN m
  ELSE IF m.root[t] = NULL THEN Fault(m, "null:fixInsert")
  ELSE m

\* root_->color_ = Color::BLACK
fixInsertRoot(m, t) ==
  IF ~Ok(m) THEN m
  ELSE IF m.root[t] = NULL THEN Fault(m, "null:fixInsert")
  ELSE [m EXCEPT !.color[m.root[t]] = BLACK]

\* fixInsert that paints the root and neither recolours nor rotates
fixInsertOnlyRoot(m, t, node) == fixInsertRoot(m, t)

fixInsert(m, t, node) == fixInsertRoot(fixInsertLoop(m, t, node, PoolSize), t)

\* ----------------------------------------------------------------- insert
\* The descent of insert: where the walk stops.
RECURSIVE InsertDescend(_, _, _, _, _, _)
InsertDescend(m, t, v, current, par, fuel) ==
  IF current = NULL \/ current = m.endNode[t]
    THEN [how |-> "slot", node |-> par]
  ELSE IF fuel = 0 THEN [how |-> "hang", node |-> NULL]
  ELSE IF CompRaises(m.cmp, v, m.value[current])
    THEN [how |-> "raise", node |-> NULL]
  ELSE IF Comp(m.cmp, v, m.value[current])
    THEN InsertDescend(m, t, v, m.left[current], current, fuel - 1)
  ELSE IF Comp(m.cmp, m.value[current], v)
    THEN InsertDescend(m, t, v, m.right[current], current, fuel - 1)
  ELSE [how |-> "dup", node |-> current]

RECURSIVE InsertNonUniqDescend(_, _, _, _, _, _)
InsertNonUniqDescend(m, t, v, current, par, fuel) ==
  IF current = NULL \/ current = m.endNode[t]
    THEN [how |-> "slot", node |-> par]
  ELSE IF fuel = 0 THEN [how |-> "hang", node |-> NULL]
  ELSE IF CompRaises(m.cmp, v, m.value[current])
    THEN [how |-> "raise", node |-> NULL]
  ELSE IF Comp(m.cmp, v, m.value[current])
    THEN InsertNonUniqDescend(m, t, v, m.left[current], current, fuel - 1)
  ELSE InsertNonUniqDescend(m, t, v, m.right[current], current, fuel - 1)

\* The sentinel is hung to the right of the maximum.  strict: insert skips
\* this when find_max returns the sentinel, insertNonUniq does not.
LinkEnd(m, t, strict, maxNode) ==
  IF ~Ok(m) THEN m
  ELSE IF m.root[t] = NULL \/ m.endNode[t] = NULL THEN m
  ELSE IF maxNode = NULL THEN Hang(m)
  ELSE IF strict /\ maxNode = m.endNode[t] THEN m
  ELSE [m EXCEPT !.parent[m.endNode[t]] = maxNode,
                 !.left[m.endNode[t]] = NULL,
                 !.right[maxNode] = m.endNode[t]]

\* ++size_
CountNew(m, t) == IF ~Ok(m) THEN m ELSE [m EXCEPT !.size[t] = @ + 1]

\* What insert does once fixInsert has returned.
AfterFixInsert(m, t, strict) ==
  CountNew(LinkEnd(m, t, strict, find_max(m, t, m.root[t])), t)

\* Linking of the new node below par, fix-up, sentinel refresh, ++size_.
LinkNew(m, t, v, newNode, par, strict) ==
  LET m1 == [m EXCEPT !.parent[newNode] = par]
      m2 == IF par = NULL THEN [m1 EXCEPT !.root[t] = newNode]
            ELSE IF Comp(m.cmp, v, m.value[par])
                 THEN [m1 EXCEPT !.left[par] = newNode]
                 ELSE [m1 EXCEPT !.right[par] = newNode]
  IN AfterFixInsert(fixInsert(m2, t, newNode), t, strict)

\* Result of an operation: the machine after it, the node of the returned
\* iterator, the bool of the returned pair, and whether it raised.
Res(m, node, flag, raised) ==
  [m |-> m, node |-> node, flag |-> flag, raised |-> raised]

\* insert as it would be if the new node were counted but never linked
insertPlaceWithoutLink(m, t, v, newNode, d) ==
  CASE d.how = "raise" -> Res(m, NULL, FALSE, TRUE)
    [] d.how = "hang" -> Res(Hang(m), NULL, FALSE, FALSE)
    [] d.how = "dup" -> Res(FreeNode(m, newNode), d.node, FALSE, FALSE)
    [] OTHER -> Res([m EXCEPT !.size[t] = @ + 1], newNode, TRUE, FALSE)

\* insert as it would be if size_ were raised before the descent and not
\* lowered again when the comparator raises
insertPlaceCountingFirst(m, t, v, newNode, d) ==
  CASE d.how = "raise" ->
         Res([m EXCEPT !.size[t] = @ + 1], NULL, FALSE, TRUE)
    [] d.how = "hang" -> Res(Hang(m), NULL, FALSE, FALSE)
    [] d.how = "dup" -> Res(FreeNode(m, newNode), d.node, FALSE, FALSE)
    [] OTHER -> Res(LinkNew(m, t, v, newNode, d.node, TRUE),
                    newNode, TRUE, FALSE)

\* insert, once newNode is allocated and the descent d has ended: the
\* comparator raised (newNode stays allocated), a duplicate was met
\* (delete newNode), or newNode is linked below d.node.
insertPlace(m, t, v, newNode, d) ==
  CASE d.how = "raise" -> Res(m, NULL, FALSE, TRUE)
    [] d.how = "hang" -> Res(Hang(m), NULL, FALSE, FALSE)
    [] d.how = "dup" -> Res(FreeNode(m, newNode), d.node, FALSE, FALSE)
    [] OTHER -> Res(LinkNew(m, t, v, newNode, d.node, TRUE),
                    newNode, TRUE, FALSE)

insertNew(m, t, v, newNode) ==
  insertPlace(m, t, v, newNode,
              InsertDescend(m, t, v, m.root[t], NULL, PoolSize))

insert(m, t, v) == insertNew(AllocNode(m, NewCell(m), v), t, v, NewCell(m))

insertNonUniqPlace(m, t, v, newNode, d) ==
  CASE d.how = "raise" -> Res(m, NULL, FALSE, TRUE)
    [] d.how = "hang" -> Res(Hang(m), NULL, FALSE, FALSE)
    [] OTHER -> Res(LinkNew(m, t, v, newNode, d.node, FALSE),
                    newNode, TRUE, FALSE)

insertNonUniqNew(m, t, v, newNode) ==
  insertNonUniqPlace(m, t, v, newNode,
                     InsertNonUniqDescend(m, t, v, m.root[t], NULL, PoolSize))

insertNonUniq(m, t, v) ==
  insertNonUniqNew(AllocNode(m, NewCell(m), v), t, v, NewCell(m))

\* ------------------------------------------------------------------ erase
transplant(m, t, u, v) ==
  LET up == m.parent[u]
      m1 == IF up = NULL THEN [m EXCEPT !.root[t] = v]
            ELSE IF u = m.left[up] THEN [m EXCEPT !.left[up] = v]
            ELSE [m EXCEPT !.right[up] = v]
  IN IF v # NULL THEN [m1 EXCEPT !.parent[v] = up] ELSE m1

\* "null, the sentinel, or black": the test fixErase applies to a nephew
DarkOrNone(m, t, n) == n = NULL \/ n = m.endNode[t] \/ m.color[n] = BLACK

\* sibling->child_->color_ = BLACK, guarded as in the source
Blacken(m, t, n) ==
  IF n # NULL /\ n # m.endNode[t] THEN [m EXCEPT !.color[n] = BLACK] ELSE m

\* The tail of one iteration of fixErase's loop: when the node under repair
\* is the sentinel, its parent link is refreshed.
fixEraseTail(m, t, node) ==
  IF Ok(m) /\ node # NULL /\ node = m.endNode[t] THEN
    LET newMaxNode == find_max(m, t, m.root[t]) IN
    IF newMaxNode = NULL THEN Hang(m)
    ELSE [m EXCEPT !.parent[node] = newMaxNode]
  ELSE m

\* One pass of the loop body; "next" is the node the loop continues with and
\* "stop" tells that the body left the loop with break.
Step(m, next, stop) == [m |-> m, next |-> next, stop |-> stop]

\* Case 4: after the rotation the loop goes on with node = root_.
StepToRoot(m, t, node) ==
  Step(m, IF Ok(m) THEN m.root[t] ELSE node, FALSE)

fixEraseBody(m, t, node) ==
  LET p == m.parent[node] IN
  IF p = NULL THEN Step(Fault(m, "null:fixErase"), node, TRUE)
  ELSE IF node = m.left[p] THEN
    LET sibling == m.right[p] IN
    IF sibling = NULL THEN Step(Fault(m, "null:fixErase"), node, TRUE)
    ELSE IF m.color[sibling] = RED THEN
      Step(leftRotate([m EXCEPT !.color[sibling] = BLACK, !.color[p] = RED],
                      t, p), node, TRUE)
    ELSE IF DarkOrNone(m, t, m.left[sibling])
            /\ DarkOrNone(m, t, m.right[sibling]) THEN
      Step([m EXCEPT !.color[sibling] = RED], p, FALSE)
    ELSE IF DarkOrNone(m, t, m.right[sibling]) THEN
      Step(rightRotate([Blacken(m, t, m.left[sibling])
                           EXCEPT !.color[sibling] = RED], t, sibling),
           node, TRUE)
    ELSE
      StepToRoot(leftRotate(Blacken([m EXCEPT !.color[sibling] = m.color[p],
                                              !.color[p] = BLACK],
                                    t, m.right[sibling]), t, p),
                 t, node)
  ELSE
    LET sibling == m.left[p] IN
    IF sibling = NULL THEN Step(Fault(m, "null:fixErase"), node, TRUE)
    ELSE IF m.color[sibling] = RED THEN
      Step(rightRotate([m EXCEPT !.color[sibling] = BLACK, !.color[p] = RED],
                       t, p), node, TRUE)
    ELSE IF DarkOrNone(m, t, m.right[sibling])
            /\ DarkOrNone(m, t, m.left[sibling]) THEN
      Step([m EXCEPT !.color[sibling] = RED], p, FALSE)
    ELSE IF DarkOrNone(m, t, m.left[sibling]) THEN
      Step(leftRotate([Blacken(m, t, m.right[sibling])
                          EXCEPT !.color[sibling] = RED], t, sibling),
           node, TRUE)
    ELSE
      StepToRoot(rightRotate(Blacken([m EXCEPT !.color[sibling] = m.color[p],
                                               !.color[p] = BLACK],
                                     t, m.left[sibling]), t, p),
                 t, node)

\* while (node && node != root_ && node->color_ == BLACK) { ... }: the test
\* (fixEraseLoop) and what follows one pass b of the body (fixEraseNext).
RECURSIVE fixEraseLoop(_, _, _, _)
RECURSIVE fixEraseNext(_, _, _)
fixEraseNext(b, t, fuel) ==
  IF b.stop THEN b
  ELSE fixEraseLoop(fixEraseTail(b.m, t, b.next), t, b.next, fuel - 1)

fixEraseLoop(m, t, node, fuel) ==
  IF ~Ok(m) THEN Step(m, node, TRUE)
  ELSE IF node = NULL \/ node = m.root[t] \/ m.color[node] # BLACK
    THEN Step(m, node, TRUE)
  ELSE IF fuel = 0 THEN Step(Hang(m), node, TRUE)
  ELSE fixEraseNext(fixEraseBody(m, t, node), t, fuel)

\* if (node) node->color_ = Color::BLACK
fixEraseDone(r) ==
  IF Ok(r.m) /\ r.next # NULL THEN [r.m EXCEPT !.color[r.next] = BLACK]
  ELSE r.m

fixErase(m, t, node) == fixEraseDone(fixEraseLoop(m, t, node, 2 * PoolSize))

\* Two children, y not a child of nodeToDelete: y->right_ takes the place of
\* y (a), and y adopts nodeToDelete's right subtree.
AdoptRight(a, nodeToDelete, y) ==
  LET a2 == [a EXCEPT !.right[y] = a.right[nodeToDelete]] IN
  IF a2.right[y] # NULL THEN [a2 EXCEPT !.parent[a2.right[y]] = y] ELSE a2

\* Two children: y is made ready to take the place of nodeToDelete.
Detach(m, t, nodeToDelete, y) ==
  IF m.parent[y] = nodeToDelete
    THEN IF m.right[y] # NULL THEN [m EXCEPT !.parent[m.right[y]] = y] ELSE m
    ELSE AdoptRight(transplant(m, t, y, m.right[y]), nodeToDelete, y)

\* Two children: y has taken the place of nodeToDelete (b) and adopts its
\* left subtree and its colour.
AdoptLeft(b, nodeToDelete, y) ==
  LET c == [b EXCEPT !.left[y] = b.left[nodeToDelete]]
      d == IF c.left[y] # NULL THEN [c EXCEPT !.parent[c.left[y]] = y] ELSE c
  IN [d EXCEPT !.color[y] = d.color[nodeToDelete]]

\* The three branches of erase; y is find_min(nodeToDelete->right_).
Unlink(m, t, nodeToDelete, y) ==
  IF m.left[nodeToDelete] = NULL
    THEN transplant(m, t, nodeToDelete, m.right[nodeToDelete])
  ELSE IF m.right[nodeToDelete] = NULL
    THEN transplant(m, t, nodeToDelete, m.left[nodeToDelete])
  ELSE AdoptLeft(transplant(Detach(m, t, nodeToDelete, y), t, nodeToDelete,
                            y),
                 nodeToDelete, y)

\* endNode_->parent_ is refreshed from find_max(root_).
RefreshEnd(m, t, newMaxNode) ==
  IF m.root[t] = NULL THEN [m EXCEPT !.parent[m.endNode[t]] = NULL]
  ELSE IF newMaxNode = NULL THEN Hang(m)
  ELSE [m EXCEPT !.parent[m.endNode[t]] =
                   IF newMaxNode = m.endNode[t] THEN NULL ELSE newMaxNode]

\* delete nodeToDelete; --size_; the sentinel's parent link
Dispose(m, t) == RefreshEnd(m, t, find_max(m, t, m.root[t]))

AfterFixErase(m, t, nodeToDelete) ==
  IF ~Ok(m) THEN m
  ELSE Dispose([FreeNode(m, nodeToDelete) EXCEPT !.size[t] = @ - 1], t)

eraseWith(m, t, nodeToDelete, y) ==
  LET l == m.left[nodeToDelete]
      r == m.right[nodeToDelete]
      two == l # NULL /\ r # NULL
      x == IF l = NULL THEN r ELSE IF r = NULL THEN l ELSE m.right[y]
      originalColor == IF two THEN m.color[y] ELSE m.color[nodeToDelete]
  IN IF two /\ y = NULL THEN Hang(m)
     ELSE IF originalColor = BLACK
       THEN AfterFixErase(fixErase(Unlink(m, t, nodeToDelete, y), t, x),
                          t, nodeToDelete)
       ELSE AfterFixErase(Unlink(m, t, nodeToDelete, y), t, nodeToDelete)

\* erase(pos), from the point where pos is known to be a node other than
\* the sentinel.
eraseNode(m, t, nodeToDelete) ==
  eraseWith(m, t, nodeToDelete, find_min(m, t, m.right[nodeToDelete]))

\* erase by value copy: the successor's value is copied into the node that
\* has two children and the successor's node is the one removed
eraseCopyingValue(m, t, pos) ==
  IF pos = NULL THEN Res(m, NULL, FALSE, TRUE)
  ELSE IF pos = m.endNode[t] THEN Res(m, NULL, FALSE, FALSE)
  ELSE IF m.left[pos] # NULL /\ m.right[pos] \notin {NULL, m.endNode[t]}
         /\ find_min(m, t, m.right[pos]) # NULL
    THEN Res(eraseNode([m EXCEPT !.value[pos] =
                          m.value[find_min(m, t, m.right[pos])]],
                       t, find_min(m, t, m.right[pos])),
             NULL, TRUE, FALSE)
  ELSE Res(eraseNode(m, t, pos), NULL, TRUE, FALSE)

\* erase that returns without a word on a null iterator
eraseSilentOnNull(m, t, pos) ==
  IF pos = NULL \/ pos = m.endNode[t] THEN Res(m, NULL, FALSE, FALSE)
  ELSE Res(eraseNode(m, t, pos), NULL, TRUE, FALSE)

\* erase that treats end() as it treats a null iterator
eraseRaisingOnEnd(m, t, pos) ==
  IF pos = NULL \/ pos = m.endNode[t] THEN Res(m, NULL, FALSE, TRUE)
  ELSE Res(eraseNode(m, t, pos), NULL, TRUE, FALSE)

\* RBTree::erase(iterator pos); pos is the node the iterator designates.
erase(m, t, pos) ==
  IF pos = NULL THEN Res(m, NULL, FALSE, TRUE)
  ELSE IF pos = m.endNode[t] THEN Res(m, NULL, FALSE, FALSE)
  ELSE Res(eraseNode(m, t, pos), NULL, TRUE, FALSE)

\* ------------------------------------------------------------------ clear
\* delete node, once both subtrees are gone
deleteNode(m, node) == IF ~Ok(m) THEN m ELSE FreeNode(m, node)

RECURSIVE deleteTree(_, _, _, _)
deleteTree(m, t, node, fuel) ==
  IF ~Ok(m) \/ node = NULL \/ node = m.endNode[t] THEN m
  ELSE IF fuel = 0 THEN Hang(m)
  ELSE IF node \notin m.allocated THEN Fault(m, "use-after-free")
  ELSE deleteNode(deleteTree(deleteTree(m, t, m.left[node], fuel - 1),
                             t, m.right[node], fuel - 1),
                  node)

\* the sentinel's links are reset, size_ is left as it is
clearEndKeepingSize(m, t) ==
  IF ~Ok(m) THEN m
  ELSE [m EXCEPT !.parent[m.endNode[t]] = NULL, !.left[m.endNode[t]] = NULL,
                 !.right[m.endNode[t]] = NULL]

\* the sentinel's links and size_ are reset
clearEnd(m, t) ==
  IF ~Ok(m) THEN m
  ELSE [m EXCEPT !.parent[m.endNode[t]] = NULL, !.left[m.endNode[t]] = NULL,
                 !.right[m.endNode[t]] = NULL, !.size[t] = 0]

clear(m, t) ==
  clearEnd(IF m.root[t] # NULL
             THEN [deleteTree(m, t, m.root[t], PoolSize)
                     EXCEPT !.root[t] = NULL]
             ELSE m,
           t)

\* ---------------------------------------------------------------- lookups
\* RBTree::find: the node found, the sentinel on a miss; raised when the
\* comparator raises.
RECURSIVE findFrom(_, _, _, _, _)
findFrom(m, t, key, current, fuel) ==
  IF current = m.endNode[t] \/ current = NULL
    THEN [node |-> m.endNode[t], raised |-> FALSE, hang |-> FALSE]
  ELSE IF fuel = 0 THEN [node |-> NULL, raised |-> FALSE, hang |-> TRUE]
  ELSE IF CompRaises(m.cmp, key, m.value[current])
    THEN [node |-> NULL, raised |-> TRUE, hang |-> FALSE]
  ELSE IF Comp(m.cmp, key, m.value[current])
    THEN findFrom(m, t, key, m.left[current], fuel - 1)
  ELSE IF Comp(m.cmp, m.value[current], key)
    THEN findFrom(m, t, key, m.right[current], fuel - 1)
  ELSE [node |-> current, raised |-> FALSE, hang |-> FALSE]

find(m, t, key) == findFrom(m, t, key, m.root[t], PoolSize)

\* Set::count
count(m, t, key) ==
  LET f == find(m, t, key) IN
  IF f.raised \/ f.hang THEN -1
  ELSE IF f.node # m.endNode[t] THEN 1 ELSE 0

\* -------------------------------------------------------------- iteration
RECURSIVE ClimbFromRight(_, _, _, _)
ClimbFromRight(m, cur, p, fuel) ==
  IF p # NULL /\ cur = m.right[p]
    THEN IF fuel = 0 THEN -1 ELSE ClimbFromRight(m, p, m.parent[p], fuel - 1)
    ELSE p

\* Iterator::operator++ of an iterator (current_node_, end_node_); the
\* result is the new current_node_, -1 for a walk that never ends.
\* Called on a non-null current_node_ only.
Increment(m, cur, e) ==
  IF cur = e THEN cur
  ELSE IF m.right[cur] # NULL THEN
    LET w == WalkLeft(m, m.right[cur], PoolSize) IN
    IF w = NULL THEN -1 ELSE w
  ELSE
    LET p == ClimbFromRight(m, cur, m.parent[cur], PoolSize) IN
    IF p = -1 THEN -1 ELSE IF p # NULL THEN p ELSE e

\* for (it = begin(); it != end(); ++it): the nodes visited, in order.
\* ok is FALSE when the loop does not reach end() within as many steps as
\* there are cells, or steps onto a null current_node_.
RECURSIVE IterFrom(_, _, _, _, _)
IterFrom(m, t, cur, acc, fuel) ==
  IF cur = m.endNode[t] THEN [nodes |-> acc, ok |-> TRUE]
  ELSE IF cur = NULL \/ cur = -1 \/ fuel = 0 THEN [nodes |-> acc, ok |-> FALSE]
  ELSE IterFrom(m, t, Increment(m, cur, m.endNode[t]), Append(acc, cur),
                fuel - 1)

begin(m, t) == find_min(m, t, m.root[t])

IterNodes(m, t) == IterFrom(m, t, begin(m, t), <<>>, PoolSize)

\* The values met by the loop above.
Elements(m, t) ==
  LET it == IterNodes(m, t) IN
  [i \in 1..Len(it.nodes) |-> m.value[it.nodes[i]]]

\* ------------------------------------------------------ reverse iteration
\* Iterator::getMaxNode, as operator-- calls it: on the end position
getMaxNode(m, cur, e) ==
  IF cur = NULL THEN e ELSE m.parent[e]

RECURSIVE ClimbFromLeft(_, _, _, _)
ClimbFromLeft(m, cur, p, fuel) ==
  IF p # NULL /\ cur = m.left[p]
    THEN IF fuel = 0 THEN -1 ELSE ClimbFromLeft(m, p, m.parent[p], fuel - 1)
    ELSE p

\* the climb's result taken as it is, null when it ran past the root
ClimbedOrNull(p, e) == IF p = -1 THEN -1 ELSE p

\* the parent the climb stops at, or end_node_
ClimbedOr(p, e) == IF p = -1 THEN -1 ELSE IF p # NULL THEN p ELSE e

\* the end of a walk along right_, -1 for a walk that never ends
WalkedRight(w) == IF w = NULL THEN -1 ELSE w

\* Iterator::operator-- of an iterator (current_node_, end_node_); the
\* result is the new current_node_, -1 for a walk that never ends.
Decrement(m, cur, e) ==
  IF cur = NULL THEN e
  ELSE IF cur = e THEN getMaxNode(m, cur, e)
  ELSE IF m.left[cur] # NULL
    THEN WalkedRight(WalkRight(m, m.left[cur], PoolSize))
  ELSE ClimbedOr(ClimbFromLeft(m, cur, m.parent[cur], PoolSize), e)

\* The iterator insert and insertNonUniq return: iterator(newNode), or
\* iterator(current) for a duplicate, built by the one-argument constructor,
\* whose end_node_ is null.
insertedIterator(node) == [current_node_ |-> node, end_node_ |-> NULL]

\* The iterator find, begin, end and the bounds return:
\* iterator(node, endNode_).
treeIterator(m, t, node) ==
  [current_node_ |-> node, end_node_ |-> m.endNode[t]]

\* Iterator::operator==
iteratorEq(a, b) == a.current_node_ = b.current_node_

\* ++it and --it on a copy of the iterator it
incremented(m, it) ==
  [it EXCEPT !.current_node_ = Increment(m, it.current_node_, it.end_node_)]

decremented(m, it) ==
  [it EXCEPT !.current_node_ = Decrement(m, it.current_node_, it.end_node_)]

\* it = end(); do { --it; visit *it; } while (it != begin()): the nodes
\* visited, in order.  ok is FALSE when the loop does not reach begin()
\* within as many steps as there are cells, or steps onto a null
\* current_node_ or onto end().
RECURSIVE ReverseFrom(_, _, _, _, _)
ReverseFrom(m, t, cur, acc, fuel) ==
  IF cur = NULL \/ cur = -1 \/ cur = m.endNode[t] \/ fuel = 0
    THEN [nodes |-> acc, ok |-> FALSE]
  ELSE IF cur = begin(m, t) THEN [nodes |-> Append(acc, cur), ok |-> TRUE]
  ELSE ReverseFrom(m, t, Decrement(m, cur, m.endNode[t]), Append(acc, cur),
                   fuel - 1)

ReverseNodes(m, t) ==
  ReverseFrom(m, t, Decrement(m, m.endNode[t], m.endNode[t]), <<>>, PoolSize)

\* ----------------------------------------------------------------- bounds
\* RBTree::lower_bound: the loop; result is the last node not less than key
RECURSIVE lowerFrom(_, _, _, _, _, _)
lowerFrom(m, t, key, current, result, fuel) ==
  IF current = m.endNode[t] \/ current = NULL
    THEN [node |-> IF result # NULL THEN result ELSE m.endNode[t],
          raised |-> FALSE, hang |-> FALSE]
  ELSE IF fuel = 0 THEN [node |-> NULL, raised |-> FALSE, hang |-> TRUE]
  ELSE IF CompRaises(m.cmp, m.value[current], key)
    THEN [node |-> NULL, raised |-> TRUE, hang |-> FALSE]
  ELSE IF ~Comp(m.cmp, m.value[current], key)
    THEN lowerFrom(m, t, key, m.left[current], current, fuel - 1)
  ELSE lowerFrom(m, t, key, m.right[current], result, fuel - 1)

lower_bound(m, t, key) == lowerFrom(m, t, key, m.root[t], NULL, PoolSize)

\* RBTree::upper_bound
RECURSIVE upperFrom(_, _, _, _, _, _)
upperFrom(m, t, key, current, result, fuel) ==
  IF current = m.endNode[t] \/ current = NULL
    THEN [node |-> IF result # NULL THEN result ELSE m.endNode[t],
          raised |-> FALSE, hang |-> FALSE]
  ELSE IF fuel = 0 THEN [node |-> NULL, raised |-> FALSE, hang |-> TRUE]
  ELSE IF CompRaises(m.cmp, key, m.value[current])
    THEN [node |-> NULL, raised |-> TRUE, hang |-> FALSE]
  ELSE IF Comp(m.cmp, key, m.value[current])
    THEN upperFrom(m, t, key, m.left[current], current, fuel - 1)
  ELSE upperFrom(m, t, key, m.right[current], result, fuel - 1)

upper_bound(m, t, key) == upperFrom(m, t, key, m.root[t], NULL, PoolSize)

\* std::distance(first, second) over bidirectional iterators: ++first until
\* it equals second; -1 when it never does (operator++ stays on end()).
RECURSIVE distance(_, _, _, _, _, _)
distance(m, first, second, e, n, fuel) ==
  IF first = second THEN n
  ELSE IF first = -1 \/ fuel = 0 THEN -1
  ELSE distance(m, Increment(m, first, e), second, e, n + 1, fuel - 1)

\* the distance between the two bounds of equal_range
rangeCount(m, t, lo, hi) ==
  IF lo.raised \/ lo.hang \/ hi.raised \/ hi.hang THEN -1
  ELSE distance(m, lo.node, hi.node, m.endNode[t], 0, PoolSize)

\* Multiset::count
countNonUniq(m, t, key) ==
  rangeCount(m, t, lower_bound(m, t, key), upper_bound(m, t, key))

\* ------------------------------------------------- erase by key, erase_all
\* f is what find(key) returned.  The flag is the count returned (0 or 1).
eraseFound(m, t, key, f) ==
  IF f.hang THEN Res(Hang(m), NULL, FALSE, FALSE)
  ELSE IF f.raised THEN Res(m, NULL, FALSE, TRUE)
  ELSE IF f.node # m.endNode[t] /\ m.value[f.node] = key
    THEN Res(erase(m, t, f.node).m, NULL, TRUE, FALSE)
  ELSE Res(m, NULL, FALSE, FALSE)

\* Multiset::erase(const key_type&)
eraseKey(m, t, key) == eraseFound(m, t, key, find(m, t, key))

\* Multiset::erase_all: the loop from begin(); it is the loop's iterator,
\* n the count so far.  The result is the machine and the count returned.
RECURSIVE eraseAllFrom(_, _, _, _, _, _)
\* the step that erases: toErase = it++ has been taken, nxt is the new it
eraseAllStep(m, t, key, it, nxt, n, fuel) ==
  IF nxt = -1 THEN [m |-> Hang(m), n |-> n]
  ELSE eraseAllFrom(erase(m, t, it).m, t, key, nxt, n + 1, fuel - 1)

eraseAllFrom(m, t, key, it, n, fuel) ==
  IF ~Ok(m) \/ it = m.endNode[t] THEN [m |-> m, n |-> n]
  ELSE IF it = NULL \/ it = -1 \/ fuel = 0 THEN [m |-> Hang(m), n |-> n]
  ELSE IF it \notin m.allocated THEN [m |-> Fault(m, "use-after-free"), n |-> n]
  ELSE IF m.value[it] = key
    THEN eraseAllStep(m, t, key, it, Increment(m, it, m.endNode[t]), n, fuel)
  ELSE eraseAllFrom(m, t, key, Increment(m, it, m.endNode[t]), n, fuel - 1)

erase_all(m, t, key) ==
  eraseAllFrom(m, t, key, begin(m, t), 0, 2 * PoolSize)

\* ------------------------------------------------------------------ merge
\* The loop of merge / mergeNonUniq over other: it is the loop's iterator.
\* The result is the machine and whether the comparator raised.
RECURSIVE mergeFrom(_, _, _, _, _, _)
\* r is what the insertion of *it returned
mergeNext(r, t, o, nxt, nonuniq, fuel) ==
  IF ~Ok(r.m) THEN [m |-> r.m, raised |-> FALSE]
  ELSE IF r.raised THEN [m |-> r.m, raised |-> TRUE]
  ELSE mergeFrom(r.m, t, o, nxt, nonuniq, fuel - 1)

mergeFrom(m, t, o, it, nonuniq, fuel) ==
  IF it = m.endNode[o] THEN [m |-> m, raised |-> FALSE]
  ELSE IF it = NULL \/ it = -1 \/ fuel = 0 THEN [m |-> Hang(m), raised |-> FALSE]
  ELSE mergeNext(IF nonuniq THEN insertNonUniq(m, t, m.value[it])
                 ELSE insert(m, t, m.value[it]),
                 t, o, Increment(m, it, m.endNode[o]), nonuniq, fuel)

\* l is what the loop has left: other.clear() when anything was merged
mergeEnd(l, o, merged) ==
  IF ~Ok(l.m) THEN Res(l.m, NULL, FALSE, FALSE)
  ELSE IF l.raised THEN Res(l.m, NULL, FALSE, TRUE)
  ELSE Res(IF merged THEN clear(l.m, o) ELSE l.m, NULL, merged, FALSE)

\* RBTree::merge (nonuniq FALSE) and RBTree::mergeNonUniq (nonuniq TRUE),
\* called on container t with other == container o, t # o
mergeInto(m, t, o, nonuniq) ==
  IF m.root[o] = NULL \/ m.size[o] = 0 THEN Res(m, NULL, FALSE, FALSE)
  ELSE mergeEnd(mergeFrom(m, t, o, begin(m, o), nonuniq, PoolSize), o,
                begin(m, o) # m.endNode[o])

merge(m, t, o) == mergeInto(m, t, o, FALSE)

mergeNonUniq(m, t, o) == mergeInto(m, t, o, TRUE)

\* ------------------------------------------------------------ insert_many
\* The fold over the argument pack: inserted_iterators grows by the node of
\* every insertion that reported inserted == true.
RECURSIVE insertManyFold(_, _, _, _, _)
RECURSIVE insertManyNext(_, _, _, _, _)
\* r is what the insertion of the pack's first argument returned
insertManyNext(r, t, rest, its, nonuniq) ==
  IF ~Ok(r.m) THEN [m |-> r.m, raised |-> FALSE, its |-> its]
  ELSE IF r.raised THEN [m |-> r.m, raised |-> TRUE, its |-> its]
  ELSE insertManyFold(r.m, t, rest,
                      IF r.flag THEN Append(its, r.node) ELSE its, nonuniq)

insertManyFold(m, t, args, its, nonuniq) ==
  IF args = <<>> THEN [m |-> m, raised |-> FALSE, its |-> its]
  ELSE insertManyNext(IF nonuniq THEN insertNonUniq(m, t, Head(args))
                      ELSE insert(m, t, Head(args)),
                      t, Tail(args), its, nonuniq)

\* catch (...) { for (auto it : inserted_iterators) erase(it); throw; }
RECURSIVE rollback(_, _, _)
rollback(m, t, its) ==
  IF its = <<>> \/ ~Ok(m) THEN m
  ELSE IF Head(its) \notin m.allocated THEN Fault(m, "use-after-free")
  ELSE rollback(erase(m, t, Head(its)).m, t, Tail(its))

\* The positions the loop of the catch block hands to erase, in the order
\* of the calls: the range-for walks inserted_iterators from its front.
RECURSIVE rollbackOrder(_, _, _)
rollbackOrder(m, t, its) ==
  IF its = <<>> \/ ~Ok(m) THEN <<>>
  ELSE IF Head(its) \notin m.allocated THEN <<Head(its)>>
  ELSE <<Head(its)>> \o rollbackOrder(erase(m, t, Head(its)).m, t, Tail(its))

\* f is what the fold over the pack has left
insertManyEnd(f, t) ==
  IF f.raised THEN Res(rollback(f.m, t, f.its), NULL, FALSE, TRUE)
  ELSE Res(f.m, NULL, TRUE, FALSE)

insert_many(m, t, args, nonuniq) ==
  insertManyEnd(insertManyFold(m, t, args, <<>>, nonuniq), t)

\* -------------------------------------------------------------------- Map
\* Map::insert(value)
MapInsert(m, t, k, x) == insert(m, t, make_pair(k, x))

\* Map::find(key): the search is for the pair (key, T())
MapFind(m, t, key) == find(m, t, make_pair(key, DefaultT))

\* Map::at(key): the node whose second is referred to, or out_of_range
at(m, t, key) ==
  LET it == MapFind(m, t, key) IN
  IF it.hang THEN Res(Hang(m), NULL, FALSE, FALSE)
  ELSE IF it.node = m.endNode[t] THEN Res(m, NULL, FALSE, TRUE)
  ELSE Res(m, it.node, TRUE, FALSE)

\* Map::operator[](key): the node whose second is referred to
subscript(m, t, key) == MapInsert(m, t, key, DefaultT)

\* ref = x, ref being the T& that at or operator[] returned for node n
store(m, n, x) == [m EXCEPT !.value[n] = make_pair(firstOf(@), x)]

\* map[key] = x
subscriptStore(m, t, key, x) ==
  LET r == subscript(m, t, key) IN
  IF Ok(r.m) /\ ~r.raised /\ r.node # NULL
    THEN Res(store(r.m, r.node, x), r.node, r.flag, FALSE)
  ELSE r

\* ------------------------------------------------- copy, move, swap, ~RBTree
\* copyTree(otherNode, parentNode), run by container t.  g is what a read of
\* a never-initialised value_ yields.  The result is the machine and the
\* copy's root.
RECURSIVE copyTree(_, _, _, _, _, _)
\* r is the copy of the right subtree: newNode->right_ = copyTree(...)
copyRight(r, newNode) ==
  [m |-> [r.m EXCEPT !.right[newNode] = r.node], node |-> newNode]

\* l is the copy of the left subtree: newNode->left_ = copyTree(...), and
\* then the right subtree
copyLeft(l, t, otherNode, newNode, g, fuel) ==
  copyRight(copyTree([l.m EXCEPT !.left[newNode] = l.node], t,
                     l.m.right[otherNode], newNode, g, fuel),
            newNode)

\* newNode = new Node(otherNode->value_, parentNode, otherNode->color_)
copyNode(m, otherNode, parentNode, g, newNode) ==
  [AllocNode(m, newNode,
             IF m.value[otherNode] = Indet THEN g ELSE m.value[otherNode])
     EXCEPT !.parent[newNode] = parentNode,
            !.color[newNode] = m.color[otherNode]]

copyTree(m, t, otherNode, parentNode, g, fuel) ==
  IF ~Ok(m) \/ otherNode = NULL \/ otherNode = m.endNode[t]
    THEN [m |-> m, node |-> NULL]
  ELSE IF fuel = 0 \/ FreeCells(m) = {} THEN [m |-> Hang(m), node |-> NULL]
  ELSE copyLeft(copyTree(copyNode(m, otherNode, parentNode, g, NewCell(m)),
                         t, m.left[otherNode], NewCell(m), g, fuel - 1),
                t, otherNode, NewCell(m), g, fuel - 1)

\* The copy's sentinel e is hung to the right of the copy's rightmost node.
copyEnd(m, e, rightmost) ==
  IF ~Ok(m) THEN m
  ELSE IF rightmost = NULL THEN Hang(m)
  ELSE [m EXCEPT !.right[rightmost] = e, !.parent[e] = rightmost]

\* root_ = copyTree(other.root_, nullptr), c being what copyTree returned
copyRoot(c, t, e) ==
  copyEnd([c.m EXCEPT !.root[t] = c.node], e, WalkRight(c.m, c.node, PoolSize))

copyInto(m, t, o, g, e) ==
  IF m.root[o] = NULL THEN m
  ELSE copyRoot(copyTree(m, t, m.root[o], NULL, g, PoolSize), t, e)

\* RBTree(const RBTree& other): container t is constructed from container o
copyConstruct(m, t, o, g) ==
  copyInto([AllocEnd(m, NewCell(m)) EXCEPT !.root[t] = NULL,
                                           !.endNode[t] = NewCell(m),
                                           !.size[t] = m.size[o],
                                           !.live = @ \cup {t}],
           t, o, g, NewCell(m))

\* The move constructor as it would be if other.size_ were left as it is
moveConstructKeepingSize(m, t, o) ==
  LET m0 == [m EXCEPT !.root[t] = m.root[o], !.endNode[t] = m.endNode[o],
                      !.size[t] = m.size[o], !.live = @ \cup {t}]
      e == NewCell(m0)
  IN [AllocEnd(m0, e) EXCEPT !.root[o] = NULL, !.endNode[o] = e]

\* RBTree(RBTree&& other)
moveConstruct(m, t, o) ==
  LET m0 == [m EXCEPT !.root[t] = m.root[o], !.endNode[t] = m.endNode[o],
                      !.size[t] = m.size[o], !.live = @ \cup {t}]
      e == NewCell(m0)
  IN [AllocEnd(m0, e) EXCEPT !.root[o] = NULL, !.endNode[o] = e,
                             !.size[o] = 0]

\* RBTree(): a default-constructed container
defaultConstruct(m, t) ==
  LET e == NewCell(m) IN
  [AllocEnd(m, e) EXCEPT !.root[t] = NULL, !.endNode[t] = e, !.size[t] = 0,
                         !.live = @ \cup {t}]

\* ~RBTree()
destroyEnd(m, t) ==
  IF ~Ok(m) THEN m
  ELSE [FreeNode(m, m.endNode[t]) EXCEPT !.root[t] = NULL,
                                         !.endNode[t] = NULL,
                                         !.size[t] = 0, !.live = @ \ {t}]

destroy(m, t) == destroyEnd(clear(m, t), t)

\* The refresh swap applies to each side after the exchange.
swapRefreshTo(m, t, mx) ==
  IF mx = NULL THEN Hang(m)
  ELSE [m EXCEPT !.parent[m.endNode[t]] = mx, !.right[mx] = m.endNode[t]]

\* The refresh of container t's sentinel.  find_max is a member function:
\* swap calls it on *this for both sides, so the walk over t's tree stops
\* at the sentinel of container self, the one swap was called on.
swapRefresh(m, t, self) ==
  IF ~Ok(m) THEN m
  ELSE IF m.root[t] # NULL
    THEN swapRefreshTo(m, t, find_max(m, self, m.root[t]))
  ELSE [m EXCEPT !.parent[m.endNode[t]] = NULL]

\* RBTree::swap(other), called on container a with other == container b
swap(m, a, b) ==
  IF a = b THEN m
  ELSE
    LET m1 == [m EXCEPT !.root[a] = m.root[b], !.root[b] = m.root[a],
                        !.endNode[a] = m.endNode[b],
                        !.endNode[b] = m.endNode[a],
                        !.size[a] = m.size[b], !.size[b] = m.size[a]]
    IN swapRefresh(swapRefresh(m1, a, a), b, a)

\* Set::operator=(Set other) with other copy-constructed from the argument:
\* container 3 is the by-value parameter.
copyAssign(m, dst, src, g) ==
  destroy(swap(copyConstruct(m, 3, src, g), dst, 3), 3)

\* Set::operator=(Set other) with other move-constructed from the argument
moveAssign(m, dst, src) ==
  destroy(swap(moveConstruct(m, 3, src), dst, 3), 3)

\* ======================================================== observations
\* The cells reachable from root_ along left_ / right_ links.
RECURSIVE Closure(_, _, _)
Closure(m, S, fuel) ==
  LET T == S \cup {m.left[n] : n \in S} \cup {m.right[n] : n \in S} IN
  IF fuel = 0 \/ (T \ {NULL}) = S THEN S ELSE Closure(m, T \ {NULL}, fuel - 1)

Reachable(m, t) ==
  IF m.root[t] = NULL THEN {} ELSE Closure(m, {m.root[t]}, PoolSize)

\* The internal (non-sentinel) nodes of container t.
Internal(m, t) == Reachable(m, t) \ {m.endNode[t]}

\* a precedes-or-equals b in the order of the comparator
InOrder(c, a, b, strict) ==
  IF strict THEN Comp(c, a, b) ELSE ~Comp(c, b, a)

Sorted(c, seq, strict) ==
  \A i \in 1..(Len(seq) - 1) : InOrder(c, seq[i], seq[i + 1], strict)

\* No live cell and no live container points into the free pool.
NoDangling ==
  /\ \A n \in allocated :
       {left[n], right[n], parent[n]} \subseteq allocated \cup {NULL}
  /\ \A t \in live :
       /\ root[t] \in allocated \cup {NULL}
       /\ endNode[t] \in allocated


\* ================================================================ actions
\* Addresses carry no meaning: after every call the cells are renamed into
\* the order in which a walk from the containers' sentinels and roots meets
\* them (lost cells after those), so that two heaps that differ
\* only in the addresses of their nodes are one state.
RECURSIVE WalkOrder(_, _, _)
WalkOrder(m, stack, ord) ==
  IF stack = <<>> THEN ord
  ELSE
    LET n == Head(stack) IN
    IF n = NULL \/ \E i \in 1..Len(ord) : ord[i] = n
      THEN WalkOrder(m, Tail(stack), ord)
      ELSE WalkOrder(m, <<m.left[n], m.right[n], m.parent[n]>> \o Tail(stack),
                     Append(ord, n))

RECURSIVE Ascending(_, _)
Ascending(S, ord) ==
  IF S = {} THEN ord
  ELSE LET n == CHOOSE x \in S : \A y \in S : x <= y
       IN Ascending(S \ {n}, Append(ord, n))

Seeds(m) ==
  <<m.endNode[1], m.root[1], m.endNode[2], m.root[2], m.endNode[3],
    m.root[3]>>

Range(seq) == {seq[i] : i \in 1..Len(seq)}

\* The cells the walk met, then the lost ones, then the free ones.
CellOrderFrom(m, met) ==
  Ascending(Nodes \ (Range(met) \cup m.allocated),
            Ascending(m.allocated \ Range(met), met))

\* A cell no container reaches any more stays allocated for good; what it
\* holds can never be read again and is not kept.
RenamedBy(m, ord, kept) ==
  LET new(n) == IF n = NULL THEN NULL
                ELSE CHOOSE i \in 1..Len(ord) : ord[i] = n
      link(f, i) == IF ord[i] \in kept THEN new(f[ord[i]]) ELSE NULL
  IN [m EXCEPT
        !.left = [i \in Nodes |-> link(m.left, i)],
        !.right = [i \in Nodes |-> link(m.right, i)],
        !.parent = [i \in Nodes |-> link(m.parent, i)],
        !.color = [i \in Nodes |->
                     IF ord[i] \in kept THEN m.color[ord[i]] ELSE BLACK],
        !.value = [i \in Nodes |->
                     IF ord[i] \in kept THEN m.value[ord[i]] ELSE Indet],
        !.allocated = {new(n) : n \in m.allocated},
        !.root = [t \in TreeIds |-> new(m.root[t])],
        !.endNode = [t \in TreeIds |-> new(m.endNode[t])]]

RenamedFrom(m, met) == RenamedBy(m, CellOrderFrom(m, met), Range(met))

Renamed(m) == RenamedFrom(m, WalkOrder(m, Seeds(m), <<>>))

\* The call has returned: the machine it leaves becomes the state.  A call
\* the process died in leaves nothing to look at but the fault.
Commit(m0) ==
  /\ fault' = m0.fault
  /\ IF Ok(m0)
     THEN \E m \in {Renamed(m0)} :
          /\ left' = m.left /\ right' = m.right /\ parent' = m.parent
          /\ color' = m.color /\ value' = m.value
          /\ allocated' = m.allocated
          /\ root' = m.root /\ endNode' = m.endNode /\ size' = m.size
          /\ live' = m.live
     ELSE UNCHANGED <<left, right, parent, color, value, allocated, root,
                      endNode, size, live>>
  /\ UNCHANGED <<kind, cmp>>

\* What is remembered of the call that has just returned: the operation, the
\* container, the key or argument pack, the kind of position given ("node",
\* "end", "null"), the container the call took as its argument, the bool it
\* returned, whether it raised.
Called(op, t, key, args, pos, o, r) ==
  [op |-> op, t |-> t, key |-> key, args |-> args, pos |-> pos, o |-> o,
   flag |-> r.flag, raised |-> r.raised]

Done(m) == Res(m, NULL, FALSE, FALSE)

Running == fault = "none"

\* The cells container t holds or has lost: a guard bounds them.
Room(k, cap) == Cardinality(allocated) + k <= cap

\* The values of the key type: 1..MaxKey, and with FailingComparator the
\* value it raises on as well.
Keys ==
  IF cmp = "failing" THEN (1..MaxKey) \cup {Poison} ELSE 1..MaxKey

\* The keys of the runs with two containers.
Keys2 == 1..(MaxKey - 1)

\* What an uninitialised int may hold: below, among and above the keys.
Garbage == {0, 1, MaxKey + 1}

ArgPacks == UNION {[1..n -> Keys] : n \in 1..MaxArgs}

\* The positions a caller can hold: what iteration and find hand out.
Positions(m, t) ==
  {IterNodes(m, t).nodes[i] : i \in 1..Len(IterNodes(m, t).nodes)}
  \cup {n \in Nodes : \E k \in Keys :
          ~find(m, t, k).raised /\ find(m, t, k).node = n
          /\ n # m.endNode[t]}

\* The reference bag is stepped for multisets only.
NoBag == [t \in TreeIds |-> [k \in 1..MaxKey |-> 0]]

BagStep(b) == bag' = IF kind = "multiset" THEN b ELSE bag

\* one occurrence of k more or less (never below none) in container t
BagPlus(b, t, k) == [b EXCEPT ![t][k] = @ + 1]

BagMinus(b, t, k) ==
  IF k \in 1..MaxKey /\ b[t][k] > 0 THEN [b EXCEPT ![t][k] = @ - 1] ELSE b

RECURSIVE BagPlusAll(_, _, _)
BagPlusAll(b, t, args) ==
  IF args = <<>> THEN b
  ELSE BagPlusAll(BagPlus(b, t, Head(args)), t, Tail(args))

\* Set::insert(key)
Insert(t, v, cap) ==
  /\ Running /\ t \in live /\ kind = "set" /\ Room(1, cap)
  /\ \E r \in {insert(Cur, t, v)} :
       /\ Commit(r.m)
       /\ last' = Called("insert", t, v, <<>>, "none", 0, r)
       /\ UNCHANGED bag

\* Multiset::insert(key)
InsertNonUniq(t, v, cap) ==
  /\ Running /\ t \in live /\ kind = "multiset" /\ Room(1, cap)
  /\ \E r \in {insertNonUniq(Cur, t, v)} :
       /\ Commit(r.m)
       /\ last' = Called("insertNonUniq", t, v, <<>>, "none", 0, r)
       /\ BagStep(BagPlus(bag, t, v))

\* Set::insert_many(args...), Multiset::insert_many(args...)
InsertMany(t, args, cap) ==
  /\ Running /\ t \in live /\ Room(Len(args), cap)
  /\ \E r \in {insert_many(Cur, t, args, kind = "multiset")} :
       /\ Commit(r.m)
       /\ last' = Called("insert_many", t, 0, args, "none", 0, r)
       /\ BagStep(IF r.raised THEN bag ELSE BagPlusAll(bag, t, args))

\* erase(pos) with pos a member position
Erase(t, pos) ==
  /\ Running /\ t \in live
  /\ \E r \in {erase(Cur, t, pos)} :
       /\ Commit(r.m)
       /\ last' = Called("erase", t, value[pos], <<>>, "node", 0, r)
       /\ BagStep(BagMinus(bag, t, value[pos]))

\* erase(end()) and erase(iterator())
EraseNoNode(t, pos) ==
  /\ Running /\ t \in live
  /\ \E r \in {erase(Cur, t, pos)} :
       /\ Commit(r.m)
       /\ last' = Called("erase", t, 0, <<>>,
                          IF pos = NULL THEN "null" ELSE "end", 0, r)
       /\ UNCHANGED bag

\* clear()
Clear(t) ==
  /\ Running /\ t \in live
  /\ \E m \in {clear(Cur, t)} :
       /\ Commit(m)
       /\ last' = Called("clear", t, 0, <<>>, "none", 0, Done(Cur))
       /\ BagStep([bag EXCEPT ![t] = NoBag[t]])

\* Set b(a);
CopyConstruct(t, o, g, cap) ==
  /\ Running /\ t \notin live /\ o \in live
  /\ Room(Cardinality(Reachable(Cur, o)) + 1, cap)
  /\ \E m \in {copyConstruct(Cur, t, o, g)} :
       /\ Commit(m)
       /\ last' = Called("copy", t, 0, <<>>, "none", o, Done(Cur))
       /\ BagStep([bag EXCEPT ![t] = bag[o]])

\* Set b(std::move(a));
MoveConstruct(t, o, cap) ==
  /\ Running /\ t \notin live /\ o \in live /\ Room(1, cap)
  /\ \E m \in {moveConstruct(Cur, t, o)} :
       /\ Commit(m)
       /\ last' = Called("move", t, 0, <<>>, "none", o, Done(Cur))
       /\ BagStep([bag EXCEPT ![t] = bag[o], ![o] = NoBag[o]])

\* Set b;
DefaultConstruct(t, cap) ==
  /\ Running /\ t \notin live /\ Room(1, cap)
  /\ \E m \in {defaultConstruct(Cur, t)} :
       /\ Commit(m)
       /\ last' = Called("construct", t, 0, <<>>, "none", 0, Done(Cur))
       /\ BagStep([bag EXCEPT ![t] = NoBag[t]])

\* b goes out of scope
Destroy(t) ==
  /\ Running /\ t \in live
  /\ \E m \in {destroy(Cur, t)} :
       /\ Commit(m)
       /\ last' = Called("destroy", t, 0, <<>>, "none", 0, Done(Cur))
       /\ BagStep([bag EXCEPT ![t] = NoBag[t]])

\* b = a;
CopyAssign(t, o, g, cap) ==
  /\ Running /\ t \in live /\ o \in live /\ t # o
  /\ Room(Cardinality(Reachable(Cur, o)) + 1, cap)
  /\ \E m \in {copyAssign(Cur, t, o, g)} :
       /\ Commit(m)
       /\ last' = Called("copy_assign", t, 0, <<>>, "none", o, Done(Cur))
       /\ BagStep([bag EXCEPT ![t] = bag[o]])

\* b = std::move(a);
MoveAssign(t, o, cap) ==
  /\ Running /\ t \in live /\ o \in live /\ t # o /\ Room(1, cap)
  /\ \E m \in {moveAssign(Cur, t, o)} :
       /\ Commit(m)
       /\ last' = Called("move_assign", t, 0, <<>>, "none", o, Done(Cur))
       /\ BagStep([bag EXCEPT ![t] = bag[o], ![o] = NoBag[o]])

\* a.swap(b)
Swap(t, o) ==
  /\ Running /\ t \in live /\ o \in live /\ t # o
  /\ \E m \in {swap(Cur, t, o)} :
       /\ Commit(m)
       /\ last' = Called("swap", t, 0, <<>>, "none", o, Done(Cur))
       /\ BagStep([bag EXCEPT ![t] = bag[o], ![o] = bag[t]])

\* Multiset::erase(key)
EraseKey(t, key) ==
  /\ Running /\ t \in live /\ kind = "multiset"
  /\ \E r \in {eraseKey(Cur, t, key)} :
       /\ Commit(r.m)
       /\ last' = Called("erase_key", t, key, <<>>, "none", 0, r)
       /\ BagStep(BagMinus(bag, t, key))

\* Multiset::erase_all(key)
EraseAll(t, key) ==
  /\ Running /\ t \in live /\ kind = "multiset"
  /\ \E r \in {erase_all(Cur, t, key)} :
       /\ Commit(r.m)
       /\ last' = Called("erase_all", t, key, <<>>, "none", 0,
                          Res(r.m, NULL, r.n > 0, FALSE))
       /\ BagStep([bag EXCEPT ![t][key] = 0])

\* a.merge(b) of Set and of Multiset: the cells of a's new nodes are taken
\* before b's are given back
Merge(t, o, cap) ==
  /\ Running /\ t \in live /\ o \in live /\ t # o /\ Room(size[o], cap)
  /\ \E r \in {mergeInto(Cur, t, o, kind = "multiset")} :
       /\ Commit(r.m)
       /\ last' = Called("merge", t, 0, <<>>, "none", o, r)
       /\ BagStep([bag EXCEPT
                     ![t] = [k \in 1..MaxKey |-> bag[t][k] + bag[o][k]],
                     ![o] = NoBag[o]])

\* The keys and the mapped values given to a Map.
MapKeys == 1..MaxKey
MappedValues == 0..MaxMapped

\* Map::insert({k, x})
MapInsertCall(t, k, x, cap) ==
  /\ Running /\ t \in live /\ kind = "map" /\ Room(1, cap)
  /\ \E r \in {MapInsert(Cur, t, k, x)} :
       /\ Commit(r.m)
       /\ last' = Called("map_insert", t, k, <<x>>, "none", 0, r)
       /\ UNCHANGED bag

\* map[k];
Subscript(t, k, cap) ==
  /\ Running /\ t \in live /\ kind = "map" /\ Room(1, cap)
  /\ \E r \in {subscript(Cur, t, k)} :
       /\ Commit(r.m)
       /\ last' = Called("subscript", t, k, <<>>, "none", 0, r)
       /\ UNCHANGED bag

\* map[k] = x;
SubscriptStore(t, k, x, cap) ==
  /\ Running /\ t \in live /\ kind = "map" /\ Room(1, cap)
  /\ \E r \in {subscriptStore(Cur, t, k, x)} :
       /\ Commit(r.m)
       /\ last' = Called("subscript_store", t, k, <<x>>, "none", 0, r)
       /\ UNCHANGED bag

\* map.at(k);
At(t, k) ==
  /\ Running /\ t \in live /\ kind = "map"
  /\ \E r \in {at(Cur, t, k)} :
       /\ Commit(r.m)
       /\ last' = Called("at", t, k, <<>>, "none", 0, r)
       /\ UNCHANGED bag

\* ========================================================= specifications
NoCall ==
  [op |-> "none", t |-> 0, key |-> 0, args |-> <<>>, pos |-> "none", o |-> 0,
   flag |-> FALSE, raised |-> FALSE]

\* One default-constructed container: RBTree() allocates the sentinel.
Fresh(k, c) ==
  /\ left = [n \in Nodes |-> NULL]
  /\ right = [n \in Nodes |-> NULL]
  /\ parent = [n \in Nodes |-> NULL]
  /\ color = [n \in Nodes |-> BLACK]
  /\ value = [n \in Nodes |-> Indet]
  /\ allocated = {1}
  /\ root = [t \in TreeIds |-> NULL]
  /\ endNode = [t \in TreeIds |-> IF t = 1 THEN 1 ELSE NULL]
  /\ size = [t \in TreeIds |-> 0]
  /\ live = {1}
  /\ kind = k
  /\ cmp = c
  /\ fault = "none"
  /\ last = NoCall
  /\ bag = NoBag

\* --- a Set<int> on its own
Init == Fresh("set", "less")

Next ==
  \/ \E v \in Keys : Insert(1, v, MaxNodes)
  \/ \E n \in Positions(Cur, 1) : Erase(1, n)
  \/ \E n \in {NULL, endNode[1]} : EraseNoNode(1, n)
  \/ Clear(1)

Spec == Init /\ [][Next]_vars

\* --- a Set<int, FailingComparator> on its own
InitFailing == Fresh("set", "failing")

SpecFailing == InitFailing /\ [][Next]_vars

\* --- a Set<int> or a Set<int, FailingComparator> that is also given
\* argument packs
InitMany == \E c \in {"less", "failing"} : Fresh("set", c)

NextMany ==
  \/ \E v \in Keys : Insert(1, v, MaxNodes)
  \/ \E a \in ArgPacks : InsertMany(1, a, MaxNodes)
  \/ \E n \in Positions(Cur, 1) : Erase(1, n)
  \/ Clear(1)

SpecMany == InitMany /\ [][NextMany]_vars

\* --- a Multiset<int> or Multiset<int, std::greater<int>> on its own
InitMultiset == \E c \in {"less", "greater"} : Fresh("multiset", c)

NextMultiset ==
  \/ \E v \in Keys : InsertNonUniq(1, v, MaxNodes - 1)
  \/ \E n \in Positions(Cur, 1) : Erase(1, n)
  \/ \E k \in Keys : EraseKey(1, k)
  \/ \E k \in Keys : EraseAll(1, k)
  \/ Clear(1)

SpecMultiset == InitMultiset /\ [][NextMultiset]_vars

\* --- two Set<int>: the second one is copy-constructed from the first,
\* copy-assigned from it, and destroyed.  The cells of both and of
\* the by-value parameter of operator= are bounded together.
TwoCap == MaxNodes + 2

NextCopy ==
  \/ \E v \in Keys2 : Insert(1, v, TwoCap)
  \/ \E n \in Positions(Cur, 1) : Erase(1, n)
  \/ \E g \in Garbage : CopyConstruct(2, 1, g, TwoCap)
  \/ \E g \in Garbage : CopyAssign(2, 1, g, TwoCap)
  \/ Destroy(2)

SpecCopy == Init /\ [][NextCopy]_vars

\* --- two Set<int>: the second one is default- or move-constructed,
\* move-assigned from the first and to it, swapped with it, and destroyed
NextMove ==
  \/ \E t \in {1, 2}, v \in Keys2 : Insert(t, v, MaxNodes)
  \/ \E t \in {1, 2} : \E n \in Positions(Cur, t) : Erase(t, n)
  \/ MoveConstruct(2, 1, MaxNodes)
  \/ DefaultConstruct(2, MaxNodes)
  \/ \E t \in {1, 2} : MoveAssign(t, 3 - t, MaxNodes)
  \/ Swap(1, 2)
  \/ Destroy(2)

SpecMove == Init /\ [][NextMove]_vars

\* --- two Set<int> or two Multiset<int>: the second one is default-
\* constructed, and each is merged into the other
InitMerge == \E k \in {"set", "multiset"} : Fresh(k, "less")

NextMerge ==
  \/ \E t \in {1, 2}, v \in Keys2 : Insert(t, v, MaxNodes)
  \/ \E t \in {1, 2}, v \in Keys2 : InsertNonUniq(t, v, MaxNodes)
  \/ \E t \in {1, 2} : \E n \in Positions(Cur, t) : Erase(t, n)
  \/ DefaultConstruct(2, MaxNodes)
  \/ \E t \in {1, 2} : Merge(t, 3 - t, TwoCap)

SpecMerge == InitMerge /\ [][NextMerge]_vars

\* --- a Map<int, int> on its own
InitMap == Fresh("map", "value")

NextMap ==
  \/ \E k \in MapKeys, x \in MappedValues : MapInsertCall(1, k, x, MaxNodes)
  \/ \E k \in MapKeys : Subscript(1, k, MaxNodes)
  \/ \E k \in MapKeys, x \in MappedValues :
       SubscriptStore(1, k, x, MaxNodes)
  \/ \E k \in MapKeys : At(1, k)
  \/ \E n \in Positions(Cur, 1) : Erase(1, n)
  \/ Clear(1)

SpecMap == InitMap /\ [][NextMap]_vars

\* --- a Set<int> given keys in ascending order only: every key inserted is
\* greater than all the keys held; the pool lets the set grow to
\* MaxAscending keys
MaxAscending == PoolSize - 1

AscendingKeys(m, t) ==
  {v \in 1..MaxAscending :
     \A i \in 1..Len(Elements(m, t)) : Elements(m, t)[i] < v}

NextAscending ==
  \/ \E v \in AscendingKeys(Cur, 1) : Insert(1, v, PoolSize)
  \/ Clear(1)

SpecAscending == Init /\ [][NextAscending]_vars


\* ================================================================= claims
\* What a caller observes: find(key) != end()
Found(m, t, key) ==
  LET f == find(m, t, key) IN
  ~f.raised /\ ~f.hang /\ f.node # m.endNode[t]

\* C1: on a unique set, erase(position) of a contained element v leaves
\* find(v) == end(), leaves every other element that find returned before
\* the call still returned by find, and lowers size() by exactly 1, whatever
\* the shape of the erased node, the current maximum included.
C1_EraseRemovesExactlyThatElement ==
  (Running /\ kind = "set") =>
    \A pos \in Positions(Cur, 1) :
      \E r \in {erase(Cur, 1, pos)} :
        Ok(r.m) =>
          /\ ~Found(r.m, 1, value[pos])
          /\ \A k \in Keys \ {value[pos]} :
               Found(Cur, 1, k) => Found(r.m, 1, k)
          /\ r.m.size[1] = size[1] - 1

\* C2: after every public operation has returned, size() of every live
\* container is the number of internal (non-sentinel) nodes reachable from
\* its root.
C2_SizeIsReachableInternalNodes ==
  Running => \A t \in live : size[t] = Cardinality(Internal(Cur, t))

\* The values the loop from begin() to end() yields, as a set.
Contents(m, t) == {Elements(m, t)[i] : i \in 1..Len(Elements(m, t))}

\* C3: after every public operation has returned, the loop from begin() to
\* end() ends and yields the values in the order of the comparator:
\* strictly increasing for the unique set, non-decreasing for the multiset.
C3_IterationIsSorted ==
  Running =>
    \A t \in live :
      /\ IterNodes(Cur, t).ok
      /\ Sorted(cmp, Elements(Cur, t), kind = "set")

\* C4: insert(v) on a unique set returns (position of the element, false)
\* and leaves size and contents as they were when an element equivalent to
\* v is present; otherwise it returns (position of the new element, true)
\* and size() grows by exactly 1.
C4_InsertReportsAndCounts ==
  (Running /\ kind = "set") =>
    \A v \in Keys :
      \E r \in {insert(Cur, 1, v)} :
        (Ok(r.m) /\ ~r.raised) =>
          IF v \in Contents(Cur, 1)
            THEN /\ ~r.flag
                 /\ r.m.value[r.node] = v
                 /\ r.m.size[1] = size[1]
                 /\ Elements(r.m, 1) = Elements(Cur, 1)
            ELSE /\ r.flag
                 /\ r.m.value[r.node] = v
                 /\ r.m.size[1] = size[1] + 1

\* C5: in every reachable state, right after insert(v) has returned, with
\* or without inserting, find(v) returns a position other than end() whose
\* value is equivalent to v.
C5_FindAfterInsert ==
  (Running /\ kind = "set") =>
    \A t \in live, v \in Keys :
      \E r \in {insert(Cur, t, v)} :
        (Ok(r.m) /\ ~r.raised) =>
          /\ Found(r.m, t, v)
          /\ r.m.value[find(r.m, t, v).node] = v

\* C5, amended: right after insert(v) has returned, find(v), unless the
\* comparator raises in it, returns a position other than end() whose value
\* is equivalent to v.
C5_FindAfterInsertUnlessRaised ==
  (Running /\ kind = "set") =>
    \A t \in live, v \in Keys :
      \E r \in {insert(Cur, t, v)} :
        (Ok(r.m) /\ ~r.raised /\ ~find(r.m, t, v).raised) =>
          /\ Found(r.m, t, v)
          /\ r.m.value[find(r.m, t, v).node] = v

\* C5: an insert that found its value present has returned, among other
\* elements, and find returns that value's position.
C5_Witness ==
  /\ Running /\ last.op = "insert" /\ ~last.raised /\ ~last.flag
  /\ size[1] >= 2
  /\ Found(Cur, 1, last.key)
  /\ value[find(Cur, 1, last.key).node] = last.key

\* What find(key) gives its caller: a position, end(), or the comparator's
\* failure.
Lookup(m, t, key) ==
  LET f == find(m, t, key) IN
  IF f.raised THEN "raised"
  ELSE IF f.hang THEN "hangs"
  ELSE IF f.node # m.endNode[t] THEN "found" ELSE "end"

\* Container t answers size() and every find/count in m2 as it does in m1.
SameAnswers(m1, m2, t) ==
  /\ m2.size[t] = m1.size[t]
  /\ \A k \in Keys : Lookup(m2, t, k) = Lookup(m1, t, k)

\* C6: when one insertion of an insert_many call raises, then once the
\* failure has propagated the container is in its pre-call state: same
\* size(), and find/count answer for every value as before the call.
C6_InsertManyAllOrNothing ==
  Running =>
    \A args \in ArgPacks :
      \E r \in {insert_many(Cur, 1, args, kind = "multiset")} :
        (Ok(r.m) /\ r.raised) => SameAnswers(Cur, r.m, 1)

\* Every cell allocated in m1 holds in m2 the links, colour and value it
\* holds in m1.
SameCells(m1, m2) ==
  \A n \in m1.allocated :
    /\ n \in m2.allocated
    /\ m2.left[n] = m1.left[n] /\ m2.right[n] = m1.right[n]
    /\ m2.parent[n] = m1.parent[n] /\ m2.color[n] = m1.color[n]
    /\ m2.value[n] = m1.value[n]

\* C7: when the comparator raises during a single insert(v), the failure
\* reaches the caller and the tree is as before the call: size(), what
\* find/count answer, the root, and every link and colour of every node.
C7_RaisingInsertLeavesTree ==
  (Running /\ kind = "set") =>
    \A v \in Keys :
      \E r \in {insert(Cur, 1, v)} :
        r.raised =>
          /\ Ok(r.m)
          /\ SameAnswers(Cur, r.m, 1)
          /\ r.m.root[1] = root[1] /\ r.m.endNode[1] = endNode[1]
          /\ SameCells(Cur, r.m)

\* C7: an insert into a set of two elements has raised.
C7_Witness ==
  /\ Running /\ last.op = "insert" /\ last.raised /\ last.key = Poison
  /\ size[1] = 2 /\ Len(Elements(Cur, 1)) = 2

\* The cells a live container owns: its sentinel and what its root reaches.
Owned(m) == UNION {Reachable(m, t) \cup {m.endNode[t]} : t \in m.live}

\* C8: after any public operation has returned, normally or with a
\* failure, every cell allocated and not deallocated is the sentinel of a
\* live container or a node reachable from its root.
C8_NoNodeLeaked ==
  Running => allocated \subseteq Owned(Cur)

\* C9: a copy-constructed or copy-assigned container has the size() of its
\* source and the loop from begin() to end() yields in it exactly what it
\* yields in the source, which is unchanged.
C9_CopyEqualsSource ==
  Running =>
    /\ \A g \in Garbage :
         2 \notin live =>
           \E m \in {copyConstruct(Cur, 2, 1, g)} :
             Ok(m) =>
               /\ m.size[2] = size[1]
               /\ Elements(m, 2) = Elements(Cur, 1)
               /\ Elements(m, 1) = Elements(Cur, 1) /\ m.size[1] = size[1]
    /\ \A g \in Garbage :
         2 \in live =>
           \E m \in {copyAssign(Cur, 2, 1, g)} :
             Ok(m) =>
               /\ m.size[2] = size[1]
               /\ Elements(m, 2) = Elements(Cur, 1)
               /\ Elements(m, 1) = Elements(Cur, 1) /\ m.size[1] = size[1]

\* What C10 asks of the machine m a move from container o into container t
\* leaves, started in the current state.
Moved(m, t, o) ==
  /\ m.size[t] = size[o]
  /\ IterNodes(m, t).ok = IterNodes(Cur, o).ok
  /\ Elements(m, t) = Elements(Cur, o)
  /\ m.size[o] = 0
  /\ begin(m, o) = m.endNode[o]
  /\ \A v \in Keys2 :
       \E r \in {insert(m, o, v)} :
         /\ Ok(r.m) /\ r.flag /\ r.m.size[o] = 1
         /\ Elements(r.m, o) = <<v>> /\ Found(r.m, o, v)

\* C10: after move construction or move assignment from src the destination
\* holds what src held (same size(), same sequence from begin() to end())
\* and src is empty (size() == 0, begin() == end()) and takes inserts.  The
\* operation has to return for that: one that never does delivers nothing.
C10_MoveTransfersAndEmpties ==
  Running =>
    /\ 2 \notin live =>
         \E m \in {moveConstruct(Cur, 2, 1)} : Ok(m) /\ Moved(m, 2, 1)
    /\ \A t \in {1, 2} :
         {1, 2} \subseteq live =>
           \E m \in {moveAssign(Cur, t, 3 - t)} :
             Ok(m) /\ Moved(m, t, 3 - t)

\* C10: a move assignment has handed two elements over to its destination
\* and left its source empty.
C10_Witness ==
  /\ Running /\ last.op = "move_assign"
  /\ size[last.t] = 2 /\ Len(Elements(Cur, last.t)) = 2
  /\ size[last.o] = 0 /\ begin(Cur, last.o) = endNode[last.o]

\* The keys find returns a position for.
FoundKeys(m, t) == {k \in Keys : Found(m, t, k)}

\* What C11 asks of the machine m that a.merge(b) leaves, a being container
\* t and b container o, started in the current state.
MergedUnique(m, t, o) ==
  /\ Ok(m)
  /\ IterNodes(m, t).ok
  /\ Contents(m, t) = Contents(Cur, t) \cup Contents(Cur, o)
  /\ FoundKeys(m, t) = Contents(Cur, t) \cup Contents(Cur, o)
  /\ m.size[t] = size[t] + Cardinality(Contents(Cur, o) \ Contents(Cur, t))
  /\ m.size[o] = 0
  /\ begin(m, o) = m.endNode[o]
  /\ FoundKeys(m, o) = {}

\* C11: for two distinct unique sets a and b, a.merge(b) leaves a holding
\* exactly the union of the elements of a and b, size(a) grown by the number
\* of elements of b that a did not hold, and b empty.
C11_MergeUniqueIsUnion ==
  (Running /\ kind = "set" /\ {1, 2} \subseteq live) =>
    \A t \in {1, 2} :
      Room(size[3 - t], TwoCap) =>
        \E r \in {merge(Cur, t, 3 - t)} : MergedUnique(r.m, t, 3 - t)

\* What C12 asks of the machine m that a.merge(b) leaves, a being multiset
\* t and b multiset o, started in the current state.
MergedNonUniq(m, t, o) ==
  /\ Ok(m)
  /\ m.size[t] = size[t] + size[o]
  /\ \A k \in Keys :
       /\ countNonUniq(m, t, k) >= 0
       /\ countNonUniq(m, t, k) =
            countNonUniq(Cur, t, k) + countNonUniq(Cur, o, k)
       /\ countNonUniq(m, o, k) = 0
  /\ m.size[o] = 0
  /\ begin(m, o) = m.endNode[o]

\* C12: for two distinct multisets a and b, a.merge(b) leaves size(a) equal
\* to the old size(a) + old size(b), count(k) in a equal to the sum of the
\* old counts of k in a and in b for every key k, and b empty.
C12_MergeMultisetAddsCounts ==
  (Running /\ kind = "multiset" /\ {1, 2} \subseteq live) =>
    \A t \in {1, 2} :
      Room(size[3 - t], TwoCap) =>
        \E r \in {mergeNonUniq(Cur, t, 3 - t)} :
          MergedNonUniq(r.m, t, 3 - t)

\* Multiset t answers size() and count(k) for every key but key in m2 as
\* it does in m1, and the loop from begin() ends in m2.
SameOtherCounts(m1, m2, t, key) ==
  \A k \in Keys \ {key} :
    /\ countNonUniq(m2, t, k) >= 0
    /\ countNonUniq(m2, t, k) = countNonUniq(m1, t, k)

\* C13: Multiset erase(key): when key has n >= 1 occurrences it returns 1,
\* count(key) becomes exactly n - 1, size() decreases by exactly 1 and the
\* count of every other key is unchanged; when key is absent it returns 0
\* and the multiset is unchanged.
C13_EraseKeyRemovesOne ==
  (Running /\ kind = "multiset") =>
    \A key \in Keys :
      \E r \in {eraseKey(Cur, 1, key)} :
        /\ Ok(r.m)
        /\ SameOtherCounts(Cur, r.m, 1, key)
        /\ IF countNonUniq(Cur, 1, key) >= 1
           THEN /\ r.flag
                /\ countNonUniq(r.m, 1, key) = countNonUniq(Cur, 1, key) - 1
                /\ r.m.size[1] = size[1] - 1
           ELSE /\ ~r.flag
                /\ countNonUniq(r.m, 1, key) = countNonUniq(Cur, 1, key)
                /\ r.m.size[1] = size[1]
                /\ Elements(r.m, 1) = Elements(Cur, 1)

\* C14: Multiset erase_all(key) returns the number of occurrences of key
\* that were present, leaves count(key) == 0, decreases size() by exactly
\* that number, and leaves the count of every other key unchanged.
C14_EraseAllRemovesEvery ==
  (Running /\ kind = "multiset") =>
    \A key \in Keys :
      \E r \in {erase_all(Cur, 1, key)} :
        /\ Ok(r.m)
        /\ r.n = countNonUniq(Cur, 1, key)
        /\ countNonUniq(r.m, 1, key) = 0
        /\ r.m.size[1] = size[1] - r.n
        /\ SameOtherCounts(Cur, r.m, 1, key)

\* C15: in every reachable state of a multiset, count(k) equals the number
\* of occurrences of k that were inserted and not yet erased (the reference
\* bag stepped alongside insert, erase(position), erase(key) and
\* erase_all), for every key k.
C15_CountIsReferenceBag ==
  (Running /\ kind = "multiset") =>
    \A t \in live : \A k \in Keys : countNonUniq(Cur, t, k) = bag[t][k]

\* The first position of the loop from begin() to end() whose value is
\* not less than key (strict FALSE) or greater than key (strict TRUE);
\* end() when there is none.
RECURSIVE FirstFrom(_, _, _, _, _)
FirstFrom(m, t, nodes, key, strict) ==
  IF nodes = <<>> THEN m.endNode[t]
  ELSE IF (IF strict THEN Comp(m.cmp, key, m.value[Head(nodes)])
           ELSE ~Comp(m.cmp, m.value[Head(nodes)], key))
    THEN Head(nodes)
  ELSE FirstFrom(m, t, Tail(nodes), key, strict)

FirstNotLess(m, t, key) ==
  FirstFrom(m, t, IterNodes(m, t).nodes, key, FALSE)

FirstGreater(m, t, key) ==
  FirstFrom(m, t, IterNodes(m, t).nodes, key, TRUE)

\* C16: in every reachable state and for every key k, lower_bound(k) is the
\* first in-order position whose value is not less than k and upper_bound(k)
\* the first whose value is greater than k (end() when there is none); so
\* equal_range(k) on an absent key returns two equal positions.
C16_BoundsAreFirstPositions ==
  Running =>
    \A t \in live : \A k \in Keys :
      /\ lower_bound(Cur, t, k).node = FirstNotLess(Cur, t, k)
      /\ upper_bound(Cur, t, k).node = FirstGreater(Cur, t, k)
      /\ k \notin Contents(Cur, t) =>
           lower_bound(Cur, t, k).node = upper_bound(Cur, t, k).node

\* seq without the node n
RECURSIVE Without(_, _)
Without(seq, n) ==
  IF seq = <<>> THEN <<>>
  ELSE IF Head(seq) = n THEN Without(Tail(seq), n)
  ELSE <<Head(seq)>> \o Without(Tail(seq), n)

\* In the loop from begin() to end() of m, node n comes after every node
\* holding a value equivalent to its own.
AfterItsEquivalents(m, t, n) ==
  \A i, j \in 1..Len(IterNodes(m, t).nodes) :
    (IterNodes(m, t).nodes[j] = n /\ i # j
     /\ ~Comp(m.cmp, m.value[IterNodes(m, t).nodes[i]], m.value[n])
     /\ ~Comp(m.cmp, m.value[n], m.value[IterNodes(m, t).nodes[i]]))
      => i < j

\* C17: in a multiset an element inserted later appears in the in-order
\* traversal after every equivalent element inserted earlier, and the
\* relative order of the elements is kept by later insertions (their
\* rotations included) and by the erasure of other elements: an insertion
\* adds its node behind its equivalents and moves no other node, an erasure
\* takes its node out and moves no other node.
C17_EquivalentsKeepInsertionOrder ==
  (Running /\ kind = "multiset") =>
    /\ \A v \in Keys :
         Room(1, MaxNodes - 1) =>
           \E r \in {insertNonUniq(Cur, 1, v)} :
             /\ Ok(r.m)
             /\ IterNodes(r.m, 1).ok
             /\ Without(IterNodes(r.m, 1).nodes, r.node)
                  = IterNodes(Cur, 1).nodes
             /\ Len(IterNodes(r.m, 1).nodes)
                  = Len(IterNodes(Cur, 1).nodes) + 1
             /\ AfterItsEquivalents(r.m, 1, r.node)
    /\ \A pos \in Positions(Cur, 1) :
         \E r \in {erase(Cur, 1, pos)} :
           /\ Ok(r.m)
           /\ IterNodes(r.m, 1).ok
           /\ IterNodes(r.m, 1).nodes = Without(IterNodes(Cur, 1).nodes, pos)

Reversed(seq) == [i \in 1..Len(seq) |-> seq[Len(seq) + 1 - i]]

\* C18: in every reachable state of a non-empty container, --end() is the
\* position of the maximum, the last element of the loop from begin() to
\* end(), and walking backwards from end() with -- visits every element,
\* in descending order.
C18_DecrementFromEndIsMax ==
  Running =>
    \A t \in live :
      (begin(Cur, t) # NULL /\ begin(Cur, t) # endNode[t]) =>
        /\ IterNodes(Cur, t).ok
        /\ IterNodes(Cur, t).nodes # <<>>
        /\ Decrement(Cur, endNode[t], endNode[t])
             = IterNodes(Cur, t).nodes[Len(IterNodes(Cur, t).nodes)]
        /\ ReverseNodes(Cur, t).ok
        /\ ReverseNodes(Cur, t).nodes = Reversed(IterNodes(Cur, t).nodes)

insertOf(m, t, v) ==
  IF kind = "multiset" THEN insertNonUniq(m, t, v) ELSE insert(m, t, v)

\* What C20 asks of the machine m that clear() of container t leaves.
Cleared(m, t) ==
  /\ Ok(m)
  /\ m.size[t] = 0
  /\ begin(m, t) = m.endNode[t]
  /\ \A k \in Keys : Lookup(m, t, k) = "end"
  /\ \A v \in Keys :
       \E r \in {insertOf(m, t, v)} :
         /\ Ok(r.m) /\ ~r.raised /\ r.flag
         /\ r.m.size[t] = 1
         /\ begin(r.m, t) = r.node
         /\ r.m.value[begin(r.m, t)] = v
         /\ Elements(r.m, t) = <<v>>

\* C20: after clear(), from any reachable state, the container is empty:
\* empty() is true, size() is 0, begin() == end() and find of any key
\* returns end(); a subsequent insert(v) succeeds and gives a container of
\* size 1 whose begin() designates v.
C20_ClearEmptiesAndReuses ==
  Running =>
    \A t \in live : \E m \in {clear(Cur, t)} : Cleared(m, t)

\* C20: clear() has emptied a container that held elements, the tree the
\* erase of a maximum left behind, whose node stays allocated.
C20_Witness ==
  /\ Running /\ last.op = "clear" /\ size[1] = 0
  /\ begin(Cur, 1) = endNode[1] /\ root[1] = NULL
  /\ Cardinality(allocated) > 1

\* In m, begin() and --end() of container t are the first and the last
\* position of its own loop from begin() to end().
EndsOnOwn(m, t) ==
  /\ IterNodes(m, t).ok
  /\ IterNodes(m, t).nodes # <<>> =>
       /\ begin(m, t) = Head(IterNodes(m, t).nodes)
       /\ Decrement(m, m.endNode[t], m.endNode[t])
            = IterNodes(m, t).nodes[Len(IterNodes(m, t).nodes)]
  /\ IterNodes(m, t).nodes = <<>> => begin(m, t) = m.endNode[t]

\* In m2 container a holds what container b holds in m1: size() and the
\* nodes the loop from begin() to end() visits.
Holds(m2, a, m1, b) ==
  /\ m2.size[a] = m1.size[b]
  /\ IterNodes(m2, a).nodes = IterNodes(m1, b).nodes
  /\ Elements(m2, a) = Elements(m1, b)

\* C21: a.swap(b) exchanges the contents of the two containers: a holds b's
\* former elements and size and b holds a's, begin(), end() and --end() of
\* each refer to its own new contents, and a second swap restores both.
C21_SwapExchanges ==
  (Running /\ {1, 2} \subseteq live) =>
    \E m \in {swap(Cur, 1, 2)} :
      /\ Ok(m)
      /\ Holds(m, 1, Cur, 2) /\ Holds(m, 2, Cur, 1)
      /\ EndsOnOwn(m, 1) /\ EndsOnOwn(m, 2)
      /\ \E m2 \in {swap(m, 1, 2)} :
           /\ Ok(m2)
           /\ Holds(m2, 1, Cur, 1) /\ Holds(m2, 2, Cur, 2)
           /\ EndsOnOwn(m2, 1) /\ EndsOnOwn(m2, 2)

\* The keys of the pairs a Map holds, and the value it holds for a key.
MapKeysOf(m, t) ==
  {firstOf(Elements(m, t)[i]) : i \in 1..Len(Elements(m, t))}

MappedOf(m, t, k) ==
  {secondOf(Elements(m, t)[i]) :
     i \in {j \in 1..Len(Elements(m, t)) : firstOf(Elements(m, t)[j]) = k}}

\* at(k) returns a reference to x
AtGives(m, t, k, x) ==
  \E r \in {at(m, t, k)} :
    /\ Ok(r.m) /\ ~r.raised /\ r.node \in Nodes
    /\ r.m.value[r.node] = make_pair(k, x)

\* C22: Map operator[](k).  With k absent it inserts (k, T()), size() grows
\* by exactly 1 and the reference designates that default value; with k
\* present size() and every stored value stay as they were and the
\* reference designates the existing mapped value.  In both cases a value
\* written through the reference is what at(k) returns afterwards.
C22_SubscriptInsertsDefault ==
  (Running /\ kind = "map") =>
    \A k \in MapKeys :
      \E r \in {subscript(Cur, 1, k)} :
        /\ Ok(r.m) /\ ~r.raised /\ r.node \in Nodes
        /\ IF k \in MapKeysOf(Cur, 1)
             THEN /\ r.m.size[1] = size[1]
                  /\ Elements(r.m, 1) = Elements(Cur, 1)
                  /\ MappedOf(Cur, 1, k) = {secondOf(r.m.value[r.node])}
                  /\ firstOf(r.m.value[r.node]) = k
             ELSE /\ r.m.size[1] = size[1] + 1
                  /\ r.m.value[r.node] = make_pair(k, DefaultT)
                  /\ AtGives(r.m, 1, k, DefaultT)
        /\ \A x \in MappedValues :
             AtGives(store(r.m, r.node, x), 1, k, x)

\* C23: Map at(k) with k absent raises out_of_range and leaves the map as
\* it was; with k present it returns a reference to the mapped value.
C23_AtRaisesWhenAbsent ==
  (Running /\ kind = "map") =>
    \A k \in MapKeys :
      \E r \in {at(Cur, 1, k)} :
        /\ Ok(r.m)
        /\ r.m = Cur
        /\ IF k \in MapKeysOf(Cur, 1)
             THEN /\ ~r.raised /\ r.node \in Nodes
                  /\ firstOf(value[r.node]) = k
                  /\ MappedOf(Cur, 1, k) = {secondOf(value[r.node])}
             ELSE r.raised

\* C24: Map insert((k, v2)) with k present, mapped to v1, reports
\* inserted == false, leaves size() as it was and the value for k stays v1:
\* the comparison is on the key only, and neither insert nor insert_many
\* overwrites a stored value.
C24_InsertKeepsStoredValue ==
  (Running /\ kind = "map") =>
    \A k \in MapKeysOf(Cur, 1) \cap MapKeys :
      \A v2 \in MappedValues :
        \E r \in {MapInsert(Cur, 1, k, v2)} :
          /\ Ok(r.m) /\ ~r.raised /\ ~r.flag
          /\ r.m.size[1] = size[1]
          /\ Elements(r.m, 1) = Elements(Cur, 1)
          /\ r.node \in Nodes /\ r.m.value[r.node] \in
               {make_pair(k, v1) : v1 \in MappedOf(Cur, 1, k)}
          /\ \A v1 \in MappedOf(Cur, 1, k) : AtGives(r.m, 1, k, v1)

\* C25: erase(position) with a position that designates no member node, a
\* default-constructed (null) iterator or the end() position, fails with
\* the invalid-iterator error and leaves the tree unchanged: same size,
\* same elements, same structure.
C25_EraseNonMemberRaises ==
  Running =>
    \A pos \in {NULL, endNode[1]} :
      \E r \in {erase(Cur, 1, pos)} :
        /\ Ok(r.m) /\ r.raised
        /\ r.m = Cur

\* C25, as the code has it: erase with a default-constructed (null)
\* iterator fails with the invalid-iterator error, erase with the end()
\* position returns without an error, and both leave the tree unchanged:
\* same size, same elements, same structure.
C25_EraseNullRaisesEndReturns ==
  Running =>
    \A pos \in {NULL, endNode[1]} :
      \E r \in {erase(Cur, 1, pos)} :
        /\ Ok(r.m) /\ r.m = Cur
        /\ r.raised <=> pos = NULL

\* C25: erase(iterator()) has just raised on a set that holds two elements.
C25_Witness ==
  /\ Running /\ last.op = "erase" /\ last.pos = "null" /\ last.raised
  /\ size[1] = 2 /\ Len(Elements(Cur, 1)) = 2

\* erase(pos) returns without raising and size() and the contents are as
\* they were.
EraseChangesNothing(pos) ==
  \E r \in {erase(Cur, 1, pos)} :
    /\ Ok(r.m) /\ ~r.raised
    /\ r.m.size[1] = size[1]
    /\ IterNodes(r.m, 1) = IterNodes(Cur, 1)
    /\ Elements(r.m, 1) = Elements(Cur, 1)

\* C26: erase(begin()) on an empty container, where begin() == end(), and
\* erase(end()) on any container do not raise and change nothing: size()
\* and the contents stay as they were.
C26_EraseEndIsNoOp ==
  Running =>
    /\ EraseChangesNothing(endNode[1])
    /\ begin(Cur, 1) = endNode[1] => EraseChangesNothing(begin(Cur, 1))

\* C26: erase(begin()) has just returned on an empty set, without raising.
C26_Witness ==
  /\ Running /\ last.op = "erase" /\ last.pos = "end" /\ ~last.raised
  /\ root[1] = NULL /\ size[1] = 0 /\ begin(Cur, 1) = endNode[1]

\* An iterator (node n, sentinel of container 1) taken in the current state
\* is, in machine m2, still on an allocated node that holds the same value,
\* and its end position is still the container's.
StillDesignates(m2, n) ==
  /\ n \in m2.allocated
  /\ m2.value[n] = value[n]
  /\ m2.endNode[1] = endNode[1]

\* C27: iterators are stable.  An iterator that designates an element
\* before an insert of any value, or before an erase of a different
\* element, designates the same node holding the same value once the call
\* has returned: erase relinks nodes and never copies or moves the value of
\* a node that survives.
C27_IteratorsAreStable ==
  Running =>
    /\ Room(1, MaxNodes) =>
         \A v \in Keys :
           \E r \in {IF kind = "multiset" THEN insertNonUniq(Cur, 1, v)
                     ELSE insert(Cur, 1, v)} :
             (Ok(r.m) /\ ~r.raised) =>
               \A n \in Positions(Cur, 1) : StillDesignates(r.m, n)
    /\ \A pos \in Positions(Cur, 1) :
         \E r \in {erase(Cur, 1, pos)} :
           Ok(r.m) =>
             \A n \in Positions(Cur, 1) \ {pos} : StillDesignates(r.m, n)

\* C27: erase has just removed the root of a set of three, a node with two
\* children, and the two other elements are still there.
C27_Witness ==
  /\ Running /\ last.op = "erase" /\ last.pos = "node" /\ last.key = 2
  /\ size[1] = 2 /\ Elements(Cur, 1) = <<1, 3>>

\* The sentinel hangs below the maximum as a leaf: a path ends at a null
\* link and at the sentinel alike, unless a node hangs below the sentinel.
IsLeaf(m, t, n) ==
  \/ n = NULL
  \/ /\ n = m.endNode[t]
     /\ m.left[n] \in {NULL, n}
     /\ m.right[n] \in {NULL, n}

\* The numbers of black nodes on the paths from n down to a leaf; -1 stands
\* for a path that never reaches one.
RECURSIVE BlackHeights(_, _, _, _)
BlackHeights(m, t, n, fuel) ==
  IF IsLeaf(m, t, n) THEN {0}
  ELSE IF fuel = 0 THEN {-1}
  ELSE LET below == BlackHeights(m, t, m.left[n], fuel - 1)
                      \cup BlackHeights(m, t, m.right[n], fuel - 1)
       IN IF -1 \in below THEN {-1}
          ELSE {h + (IF m.color[n] = BLACK THEN 1 ELSE 0) : h \in below}

\* C28: after every public operation, erase in particular, every path from
\* the root down to a null leaf holds the same number of black nodes.
C28_BlackHeightIsUniform ==
  Running =>
    \A t \in live :
      /\ -1 \notin BlackHeights(Cur, t, root[t], PoolSize)
      /\ Cardinality(BlackHeights(Cur, t, root[t], PoolSize)) = 1

\* The nodes of container t on the paths from the root to the leaves.
Members(m, t) ==
  {n \in Reachable(m, t) : ~IsLeaf(m, t, n)}

C30_SentinelParentIsMax ==
  Running =>
    \A t \in live :
      /\ parent[endNode[t]] = NULL <=> Internal(Cur, t) = {}
      /\ Internal(Cur, t) # {} =>
           /\ parent[endNode[t]] \in Internal(Cur, t)
           /\ right[parent[endNode[t]]] = endNode[t]
           /\ \A n \in Internal(Cur, t) :
                ~Comp(cmp, value[parent[endNode[t]]], value[n])

\* C31: the sentinel end node is kept off-tree: in every reachable state it
\* is not the left or right child of an internal node, it is not the root,
\* and it has no child of its own.
C31_SentinelIsOffTree ==
  Running =>
    \A t \in live :
      /\ root[t] # endNode[t]
      /\ \A n \in allocated \ {endNode[t]} :
           left[n] # endNode[t] /\ right[n] # endNode[t]
      /\ left[endNode[t]] = NULL /\ right[endNode[t]] = NULL

\* C32: after every public operation has returned, parent and child links
\* agree: for every internal node n reachable from the root, a left link
\* that is not null leads to a node whose parent is n, a right link that is
\* not null leads to a node whose parent is n, and the root's parent is
\* null.
C32_ParentLinksAgree ==
  Running =>
    \A t \in live :
      /\ root[t] # NULL => parent[root[t]] = NULL
      /\ \A n \in Internal(Cur, t) :
           \A c \in {left[n], right[n]} \ {NULL} : parent[c] = n

\* The number of nodes on the longest path from n down to a leaf; fuel runs
\* out only on a cycle of links.
RECURSIVE Height(_, _, _, _)
Height(m, t, n, fuel) ==
  IF IsLeaf(m, t, n) \/ fuel = 0 THEN 0
  ELSE LET l == Height(m, t, m.left[n], fuel - 1)
           r == Height(m, t, m.right[n], fuel - 1)
       IN 1 + (IF l > r THEN l ELSE r)

RECURSIVE Pow2(_)
Pow2(h) == IF h = 0 THEN 1 ELSE 2 * Pow2(h - 1)

\* h <= 2 * log2(n + 1), in integers: 2^h <= (n + 1)^2
WithinHeightBound(h, n) == Pow2(h) <= (n + 1) * (n + 1)

UpTo(n) == [i \in 1..n |-> i]

\* C33: for every n >= 1 within the bound, inserting the keys 1..n in
\* ascending order into an empty unique set gives a tree whose in-order
\* traversal is 1..n, whose size is n, whose root is black and whose height
\* (nodes on the longest path from the root to a leaf) is at most
\* 2 * log2(n + 1).  Stated as a step: the set that holds 1..n-1 after
\* those inserts takes insert(n) and is as described.
C33_AscendingInsertsStayBalanced ==
  Running =>
    \A n \in 1..MaxAscending :
      (size[1] = n - 1 /\ Elements(Cur, 1) = UpTo(n - 1)) =>
        \E r \in {insert(Cur, 1, n)} :
          /\ Ok(r.m) /\ ~r.raised /\ r.flag
          /\ IterNodes(r.m, 1).ok
          /\ Elements(r.m, 1) = UpTo(n)
          /\ r.m.size[1] = n
          /\ r.m.root[1] # NULL /\ r.m.color[r.m.root[1]] = BLACK
          /\ WithinHeightBound(Height(r.m, 1, r.m.root[1], PoolSize), n)

\* C33: the keys 1..MaxAscending have been inserted in ascending order into
\* the empty set, and the set holds them all.
C33_Witness ==
  /\ Running /\ last.op = "insert" /\ last.key = MaxAscending /\ last.flag
  /\ size[1] = MaxAscending
  /\ Elements(Cur, 1) = UpTo(MaxAscending)

\* C34: whenever an insertion of an insert_many call raises, the catch
\* block erases the positions this call inserted in reverse order of their
\* insertion, the most recently inserted one first, and the call raises
\* once they have been erased.
C34_RollbackErasesNewestFirst ==
  Running =>
    \A args \in ArgPacks :
      Room(Len(args), MaxNodes) =>
        \E f \in {insertManyFold(Cur, 1, args, <<>>, kind = "multiset")} :
          (Ok(f.m) /\ f.raised) =>
            /\ rollbackOrder(f.m, 1, f.its) = Reversed(f.its)
            /\ insertManyEnd(f, 1).raised

\* C35: Multiset erase(key) on a present key removes the first occurrence
\* of key in the in-order sequence, the node lower_bound(key) designates,
\* which is the oldest of the equivalent elements; every later equivalent
\* and every other element stays in place.
C35_EraseKeyRemovesFirstOccurrence ==
  (Running /\ kind = "multiset") =>
    \A key \in Keys :
      (find(Cur, 1, key).node # endNode[1]) =>
        \E r \in {eraseKey(Cur, 1, key)} :
          /\ Ok(r.m) /\ r.flag
          /\ IterNodes(r.m, 1).ok
          /\ IterNodes(r.m, 1).nodes
               = Without(IterNodes(Cur, 1).nodes, lower_bound(Cur, 1, key).node)

\* C36: in every state reached by inserts and erases, erase(position) on a
\* valid member position completes: fixErase reads the colour of a sibling
\* that exists, no rotation is asked of a node that lacks the child the
\* rotation needs, and the call returns without raising.
C36_EraseAlwaysCompletes ==
  Running =>
    \A pos \in Positions(Cur, 1) :
      \E r \in {erase(Cur, 1, pos)} : Ok(r.m) /\ ~r.raised

\* C37: the iterator that insert(v) or insertNonUniq(v) returns is
\* interchangeable with the iterator find or begin() gives for the same
\* element: the two compare equal, incrementing both gives equal positions,
\* decrementing both gives equal positions, and decrementing the iterator
\* returned by the insertion of a new minimum gives end().
C37_ReturnedIteratorIsInterchangeable ==
  (Running /\ Room(1, MaxNodes)) =>
    \A v \in Keys :
      \E r \in {IF kind = "multiset" THEN insertNonUniq(Cur, 1, v)
                ELSE insert(Cur, 1, v)} :
        (Ok(r.m) /\ ~r.raised) =>
          \E a \in {insertedIterator(r.node)} :
            \E b \in {treeIterator(r.m, 1, r.node)} :
              /\ iteratorEq(a, b)
              /\ iteratorEq(incremented(r.m, a), incremented(r.m, b))
              /\ iteratorEq(decremented(r.m, a), decremented(r.m, b))
              /\ (r.flag /\ r.node = begin(r.m, 1)) =>
                   iteratorEq(decremented(r.m, a),
                              treeIterator(r.m, 1, r.m.endNode[1]))

====
